---- MODULE Spec2Model ----
(***************************************************************************)
(* A model of pystrano: the deploy and setup workflows of deploy.py, the   *)
(* remote operations of core.py and the configuration record of            *)
(* config/models.py.                                                       *)
(*                                                                         *)
(* Release names are the strings strftime("%Y%m%d%H%M%S") yields; they     *)
(* have a fixed width, so their lexicographic order is the order of the    *)
(* instants they name.  Only that order matters to the program, so the     *)
(* model writes a release name as the value of a clock that advances by    *)
(* one between two deploy invocations; 0 stands for "no release" (a        *)
(* missing symlink).                                                       *)
(***************************************************************************)
EXTENDS Integers, Sequences, FiniteSets, TLC

\* ------------------------------------------------------------------ bounds
NumServers == 2     \* length of server_configurations
MaxRuns == 2        \* invocations of the command line in one behaviour
MaxKeep == 2        \* largest keep_releases drawn for a server
MaxListing == 3     \* most entries of a releases_dir listing handed to prune
MaxDataKeys == 2    \* most keys of a mapping handed to PystranoConfig or update_dict
MaxServerEntries == 2   \* most entries of servers in a deployment file
MaxCalls == 2       \* calls of one core.py operation on the same host

Servers == 1..NumServers
Names == 1..MaxRuns
NoRelease == 0

VARIABLES
    clock,          \* what datetime.now() last read
    runs,           \* invocations started so far
    cmd,            \* the workflow of the current invocation: "none", "deploy", "setup"
    timestamp,      \* deploy's local `timestamp`
    idx,            \* position of the for loop in server_configurations
    pc,             \* the statement the workflow is at
    cfg,            \* server_config of the current iteration
    log,            \* the calls made for the current server: <<[step, ok]>>
    status,         \* per server in this invocation: pending, running, completed, aborted
    remote,         \* per server: the remote file system
    dryRun,         \* main's --dry-run flag
    loaded,         \* load_config returned in the current invocation
    startCurrent,   \* per server: where current pointed when the invocation started
    promoted,       \* per server: update_symlink last ran after every step before it had returned
    made,           \* what this invocation created: [server, kind, name]
    \* one call of cleanup_old_releases on a connection of its own
    prListing,      \* the words of the stdout `ls -1 releases_dir` answers with
    prKeep,         \* conf.keep_releases
    prRemote,       \* the remote state the call works on
    prCmds,         \* the commands the call has issued
    prPc,           \* "call", then "returned" or "raised"
    \* one PystranoConfig object of config/models.py
    conf,           \* its fields
    confBuilt,      \* the constructor has returned it
    confOp,         \* the operation that has just ended: construct, update_dict,
                    \* finalize_config; "none" once its caller has gone on
    confData,       \* the mapping handed to that operation
    confErr,        \* that operation raised ValidationError
    confKeys,       \* the keys the caller's mappings draw from
    confScenario,   \* built, finalized (finalized_twice), then changed by an
                    \* update_dict of project_user alone, then refinalized;
                    \* "off" otherwise
    confOrigData,   \* the mapping the object was constructed from, while
                    \* confScenario follows it
    \* one call of load_config of config/loader.py
    ldDoc,          \* what safe_load returned
    ldPc,           \* "start", "loop", then "returned" or "raised"
    ldIndex,        \* `index` of the loop over config_file.servers
    ldConfigs,      \* the local list server_configs
    ldReturned,     \* what the caller of load_config received
    ldError,        \* what the message of the ValueError raised names
    \* calls of one operation of core.py on a connection of their own
    opName,         \* the operation
    opConf,         \* the configuration it is handed
    opRemote,       \* the remote state it works on
    opCmds,         \* the commands the current call has issued
    opPc,           \* "call", then "returned" or "raised"
    opCalls,        \* calls made so far
    opProbeFailed,  \* create_project_user: result.failed of the current call
    opReported      \* try_to_remove_release_dir: the current call printed an error

deployVars == <<clock, runs, cmd, timestamp, idx, pc, cfg, log, status, remote,
                dryRun, loaded, startCurrent, promoted, made>>

pruneVars == <<prListing, prKeep, prRemote, prCmds, prPc>>

confVars == <<conf, confBuilt, confOp, confData, confErr, confKeys, confScenario,
              confOrigData>>

loadVars == <<ldDoc, ldPc, ldIndex, ldConfigs, ldReturned, ldError>>

opVars == <<opName, opConf, opRemote, opCmds, opPc, opCalls, opProbeFailed, opReported>>

vars == <<deployVars, pruneVars, confVars, loadVars, opVars>>

\* ------------------------------------------------------- server configuration
\* The fields of PystranoConfig that deploy() and set_up() branch on.
\* secrets and service_file are kept as "is truthy".
ServerConfigs ==
    [secrets: BOOLEAN, collect_static_files: BOOLEAN, run_migrations: BOOLEAN,
     service_file: BOOLEAN, keep_releases: 0..MaxKeep]

NoConfig ==
    [secrets |-> FALSE, collect_static_files |-> FALSE, run_migrations |-> FALSE,
     service_file |-> FALSE, keep_releases |-> 0]

\* ------------------------------------------------------------ remote state
\* releases: names of the directories in releases_dir
\* current:  the release the current_dir symlink points to
\* envs:     the names N of the files shared_dir/.env.N
\* envLink:  the snapshot shared_dir/.env points to
\* user:     the project user exists
\* sudoers:  /etc/sudoers.d/project_user exists
\* dirs:     shared_dir, releases_dir and venv_dir exist
EmptyRemote ==
    [releases |-> {}, current |-> NoRelease, envs |-> {}, envLink |-> NoRelease,
     user |-> FALSE, sudoers |-> FALSE, dirs |-> FALSE]

\* the timestamp taken inside the loop: each server a second later
NewReleaseDirPerServer(s, ts) == [server |-> s, name |-> ts + s - 1]

\* f"{server_config.releases_dir}/{timestamp}": the directory is named by the
\* server it is on and its last component.
NewReleaseDir(s, ts) == [server |-> s, name |-> ts]

\* os.path.basename(new_release_dir)
Basename(dir) == dir.name

\* sorted ascending, as `ls -1` prints a directory
RECURSIVE SortedSeq(_)
SortedSeq(S) ==
    IF S = {} THEN <<>>
    ELSE LET m == CHOOSE x \in S : \A y \in S : x <= y
         IN <<m>> \o SortedSeq(S \ {m})

Range(seq) == {seq[i] : i \in 1..Len(seq)}

\* ------------------------------------------------- core.py: remote operations
\* Each operation maps a server's remote state to the state after all of its
\* commands have succeeded.  An operation whose commands change nothing the
\* model tracks (the content of a release directory, pip install, manage.py,
\* systemctl) leaves the state as it is.

\* mkdir -p new_release_dir
setup_release_dir(r, dir) ==
    [r EXCEPT !.releases = @ \cup {Basename(dir)}]

\* git clone ... new_release_dir (then git fetch --tags / git checkout)
update_source_code(r, dir, c) == r

\* put env_file shared_dir/.env.{release_name}
copy_env_file(r, dir, c) ==
    [r EXCEPT !.envs = @ \cup {Basename(dir)}]

\* the env link made at current_dir as well
setup_symlinks_current(r, dir, c) ==
    [r EXCEPT !.envLink = dir.name, !.current = dir.name]

\* ln -sfn shared_dir/media new_release_dir/media
\* ln -sfn shared_dir/.env.{release_name} shared_dir/.env
setup_symlinks(r, dir, c) ==
    [r EXCEPT !.envLink = Basename(dir)]

\* venv_dir/bin/pip install -r requirements.txt
install_requirements(r, dir, c) == r

\* ln -sfn shared_dir/{secret} new_release_dir/{secret}, for every secret
link_secrets_to_release(r, dir, c) == r

\* python manage.py collectstatic --noinput
collect_static_files(r, dir, c) == r

\* python manage.py migrate
migrate_database(r, dir, c) == r

\* a promotion that links nothing
update_symlink_noop(r, dir, c) == r

\* ln -sfn new_release_dir current_dir
update_symlink(r, dir, c) ==
    [r EXCEPT !.current = Basename(dir)]

\* sudo systemctl restart service_file_name
restart_service(r, c) == r

\* only a negative keep_releases keeps everything
KeepsAllNegativeOnly(keep) == keep < 0

\* cleanup_old_releases, line 75: the early return that issues no command
KeepsAll(keep) == keep <= 0

\* Python's seq[:stop]
SliceTo(seq, stop) ==
    LET n == Len(seq)
        e == IF stop < 0 THEN (IF n + stop < 0 THEN 0 ELSE n + stop)
             ELSE (IF stop > n THEN n ELSE stop)
    IN SubSeq(seq, 1, e)

\* cleanup_old_releases, lines 80-81: the names it removes, in the order it
\* removes them, given the words of the listing `ls -1` printed
OldReleases(listing, keep) ==
    IF Len(listing) > keep
    THEN SliceTo(listing, -keep)
    ELSE <<>>

\* rm -rf releases_dir/{release}
RemoveRelease(r, name) ==
    [r EXCEPT !.releases = @ \ {name}]

\* the state after the first n removals of cleanup_old_releases
RECURSIVE RemoveFirst(_, _, _)
RemoveFirst(r, old, n) ==
    IF n = 0 THEN r
    ELSE RemoveRelease(RemoveFirst(r, old, n - 1), old[n])

\* id -u project_user; on failure useradd and the sudoers entry
create_project_user(r, c) ==
    IF r.user THEN r ELSE [r EXCEPT !.user = TRUE, !.sudoers = TRUE]

\* mkdir -p ~project_user/.ssh; cp authorized_keys; chown
copy_authorized_keys(r, c) == r

\* mkdir -p shared_dir, releases_dir, venv_dir; chown project_root
create_directory_structure(r, c) == [r EXCEPT !.dirs = TRUE]

\* apt update; apt install
setup_packages(r, c) == r

\* python3 -m venv; chown
setup_venv(r, c) == r

\* ssh-keyscan >> known_hosts; chown (the lines of known_hosts are followed
\* where the operation is called on its own, see known_hosts_lines)
setup_known_hosts(r, c) == r

\* put service_file; systemctl daemon-reload; systemctl enable
setup_service(r, c) == r

\* put secret shared_dir/{secret}, for every secret
copy_secrets(r, c) == r

\* ------------------------------------------------------- deploy.py: workflows
\* a loop that steps over a server
NextServerSkips(i) == i + 2

\* for server_config in server_configurations: the position after i
NextServer(i) == i + 1

\* migrate skipped even when run_migrations is set
AfterStaticNoMigrate(c) == "update_symlink"

\* deploy(), lines 228-232: what follows collect-static
AfterStatic(c) ==
    IF c.run_migrations THEN "migrate_database" ELSE "update_symlink"

\* deploy(), lines 221-226: what follows link-secrets
AfterSecrets(c) ==
    IF c.collect_static_files THEN "collect_static_files" ELSE AfterStatic(c)

\* link-secrets issued whatever secrets holds
AfterInstallAlwaysLinks(c) == "link_secrets_to_release"

\* deploy(), lines 217-219: what follows install-dependencies
AfterInstall(c) ==
    IF c.secrets THEN "link_secrets_to_release" ELSE AfterSecrets(c)

\* deploy(), lines 244-248: what follows promote-release
AfterPromote(c) ==
    IF c.service_file THEN "restart_service" ELSE "cleanup_old_releases"

\* the env link made before the snapshot is uploaded
DeployNextLinksFirst(step, c) ==
    CASE step = "setup_release_dir" -> "update_source_code"
      [] step = "update_source_code" -> "setup_symlinks"
      [] step = "setup_symlinks" -> "copy_env_file"
      [] step = "copy_env_file" -> "install_requirements"
      [] step = "install_requirements" -> AfterInstall(c)
      [] step = "link_secrets_to_release" -> AfterSecrets(c)
      [] step = "collect_static_files" -> AfterStatic(c)
      [] step = "migrate_database" -> "update_symlink"
      [] step = "update_symlink" -> AfterPromote(c)
      [] step = "restart_service" -> "cleanup_old_releases"
      [] step = "cleanup_old_releases" -> "loop"

\* deploy(), lines 203-249: the call that follows `step` once it has returned
DeployNext(step, c) ==
    CASE step = "setup_release_dir" -> "update_source_code"
      [] step = "update_source_code" -> "copy_env_file"
      [] step = "copy_env_file" -> "setup_symlinks"
      [] step = "setup_symlinks" -> "install_requirements"
      [] step = "install_requirements" -> AfterInstall(c)
      [] step = "link_secrets_to_release" -> AfterSecrets(c)
      [] step = "collect_static_files" -> AfterStatic(c)
      [] step = "migrate_database" -> "update_symlink"
      [] step = "update_symlink" -> AfterPromote(c)
      [] step = "restart_service" -> "cleanup_old_releases"
      [] step = "cleanup_old_releases" -> "loop"

\* the service registered whatever service_file holds
SetupNextAlwaysService(step, c) ==
    LET afterService == IF c.secrets THEN "copy_secrets" ELSE "loop"
    IN CASE step = "create_project_user" -> "copy_authorized_keys"
         [] step = "copy_authorized_keys" -> "create_directory_structure"
         [] step = "create_directory_structure" -> "setup_packages"
         [] step = "setup_packages" -> "setup_venv"
         [] step = "setup_venv" -> "setup_known_hosts"
         [] step = "setup_known_hosts" -> "setup_service"
         [] step = "setup_service" -> afterService
         [] step = "copy_secrets" -> "loop"

\* set_up(), lines 145-169
SetupNext(step, c) ==
    LET afterService == IF c.secrets THEN "copy_secrets" ELSE "loop"
    IN CASE step = "create_project_user" -> "copy_authorized_keys"
         [] step = "copy_authorized_keys" -> "create_directory_structure"
         [] step = "create_directory_structure" -> "setup_packages"
         [] step = "setup_packages" -> "setup_venv"
         [] step = "setup_venv" -> "setup_known_hosts"
         [] step = "setup_known_hosts" ->
                IF c.service_file THEN "setup_service" ELSE afterService
         [] step = "setup_service" -> afterService
         [] step = "copy_secrets" -> "loop"

\* a raising call ends the server's iteration only
OnExceptionNextServer(step, c) == "loop"

\* a failing pip install is swallowed and the workflow goes on
OnExceptionSwallowInstall(step, c) ==
    IF step = "install_requirements" THEN AfterInstall(c) ELSE "exit1"

\* except Exception: logging.exception(...); exit(1)
\* (deploy lines 253-255, set_up lines 173-175): where a raising call leads
OnException(step, c) == "exit1"

\* the transport that carries out what it is asked for even in a rehearsal
ConnectionEffectExecutes(dry, before, after) == after

\* _make_connection, lines 73-93: with dry_run a DryRunConnection, whose run,
\* sudo, put and cd only log (lines 33-71), otherwise a fabric Connection
ConnectionEffect(dry, before, after) == IF dry THEN before ELSE after

\* lines 44 and 51: what run and sudo of a DryRunConnection return
DryRunResult == [stdout |-> <<>>, failed |-> FALSE]

\* core.py line 78: the words of what `ls -1 releases_dir` printed
LsStdout(dry, r) == IF dry THEN DryRunResult.stdout ELSE SortedSeq(r.releases)

\* a load error that lets main go on to its normal end
OnMainExceptionReturns == "done"

\* main(), lines 317-319: except Exception: logging.exception; exit(1)
OnMainException == "exit1"

\* main(), lines 314-316: neither "deploy" nor "setup": logging.error; exit(1)
OnInvalidCommand == "exit1"

\* the user _make_connection is handed: "root" in set_up (lines 136-142),
\* server_config.project_user in deploy (lines 194-200)
ConnectionUser(command) ==
    IF command = "setup" THEN "root" ELSE "project_user"

\* the first call of an iteration (after _make_connection, which only builds
\* the connection object)
FirstStep(command) ==
    IF command = "deploy" THEN "setup_release_dir" ELSE "create_project_user"

Ended == pc \in {"idle", "done", "exit1"}

\* the steps of deploy() that precede update_symlink for configuration c
BeforePromote(c) ==
    {"setup_release_dir", "update_source_code", "copy_env_file", "setup_symlinks",
     "install_requirements"}
    \cup (IF c.secrets THEN {"link_secrets_to_release"} ELSE {})
    \cup (IF c.collect_static_files THEN {"collect_static_files"} ELSE {})
    \cup (IF c.run_migrations THEN {"migrate_database"} ELSE {})

Succeeded(l) == {l[i].step : i \in {j \in 1..Len(l) : l[j].ok}}
Failed(l) == {l[i].step : i \in {j \in 1..Len(l) : ~l[j].ok}}

\* ------------------------------------------------------------------ actions
\* main() dispatches to deploy(): timestamp = datetime.now().strftime(...).
\* A deploy invocation starts at a later second than the one before it.
InvokeDeploy ==
    /\ Ended
    /\ runs < MaxRuns
    /\ runs' = runs + 1
    /\ cmd' = "deploy"
    /\ clock' = clock + 1
    /\ timestamp' = clock'
    /\ idx' = 0
    /\ pc' = "loop"
    /\ cfg' = NoConfig
    /\ log' = <<>>
    /\ status' = [s \in Servers |-> "pending"]
    /\ startCurrent' = [s \in Servers |-> remote[s].current]
    /\ made' = {}
    /\ loaded' = TRUE
    /\ UNCHANGED <<remote, dryRun, promoted, pruneVars, confVars, loadVars, opVars>>

\* main() dispatches to set_up()
InvokeSetup ==
    /\ Ended
    /\ runs < MaxRuns
    /\ runs' = runs + 1
    /\ cmd' = "setup"
    /\ timestamp' = NoRelease
    /\ idx' = 0
    /\ pc' = "loop"
    /\ cfg' = NoConfig
    /\ log' = <<>>
    /\ status' = [s \in Servers |-> "pending"]
    /\ startCurrent' = [s \in Servers |-> remote[s].current]
    /\ made' = {}
    /\ loaded' = TRUE
    /\ UNCHANGED <<clock, remote, dryRun, promoted, pruneVars, confVars, loadVars, opVars>>

\* main() with a cmd that is neither "deploy" nor "setup", after load_config
\* returned (lines 314-316)
InvokeInvalid ==
    /\ Ended
    /\ runs < MaxRuns
    /\ runs' = runs + 1
    /\ cmd' = "other"
    /\ loaded' = TRUE
    /\ timestamp' = NoRelease
    /\ idx' = 0
    /\ pc' = OnInvalidCommand
    /\ cfg' = NoConfig
    /\ log' = <<>>
    /\ status' = [s \in Servers |-> "pending"]
    /\ startCurrent' = [s \in Servers |-> remote[s].current]
    /\ made' = {}
    /\ UNCHANGED <<clock, remote, dryRun, promoted, pruneVars, confVars, loadVars, opVars>>

\* main() whose load_config raised (line 296), whatever cmd is
InvokeLoadFails ==
    /\ Ended
    /\ runs < MaxRuns
    /\ runs' = runs + 1
    /\ \E c \in {"deploy", "setup", "other"} : cmd' = c
    /\ loaded' = FALSE
    /\ timestamp' = NoRelease
    /\ idx' = 0
    /\ pc' = OnMainException
    /\ cfg' = NoConfig
    /\ log' = <<>>
    /\ status' = [s \in Servers |-> "pending"]
    /\ startCurrent' = [s \in Servers |-> remote[s].current]
    /\ made' = {}
    /\ UNCHANGED <<clock, remote, dryRun, promoted, pruneVars, confVars, loadVars, opVars>>

\* the for statement takes the next server_config.  Configurations of
\* different servers are independent inputs, so the one of a server is drawn
\* when the loop reaches it.
LoopNext ==
    /\ pc = "loop"
    /\ idx < NumServers
    /\ idx' = NextServer(idx)
    /\ \E c \in ServerConfigs : cfg' = c
    /\ pc' = FirstStep(cmd)
    /\ log' = <<>>
    /\ status' = [status EXCEPT ![idx'] = "running"]
    /\ UNCHANGED <<clock, runs, cmd, timestamp, remote, dryRun, loaded, startCurrent,
                   promoted, made, pruneVars, confVars, loadVars, opVars>>

\* the for statement is exhausted: the completion message, normal return
LoopEnd ==
    /\ pc = "loop"
    /\ idx >= NumServers
    /\ pc' = "done"
    /\ UNCHANGED <<clock, runs, cmd, timestamp, idx, cfg, log, status, remote,
                   dryRun, loaded, startCurrent, promoted, made, pruneVars, confVars,
                   loadVars, opVars>>

\* One call of a core.py operation for the current server: it returns (ok) and
\* the workflow goes on, or it raises and the handler takes over.  `after` is
\* the server's remote state when the call ends on a fabric Connection; the
\* methods of a DryRunConnection log, return and never raise.
Call(step, next, ok, after) ==
    /\ pc = step
    /\ dryRun => ok
    /\ log' = Append(log, [step |-> step, ok |-> ok])
    /\ remote' = [remote EXCEPT ![idx] = ConnectionEffect(dryRun, remote[idx], after)]
    /\ pc' = IF ok THEN next ELSE OnException(step, cfg)
    /\ status' = [status EXCEPT ![idx] =
                    IF ~ok THEN "aborted"
                    ELSE IF next = "loop" THEN "completed" ELSE @]
    /\ UNCHANGED <<clock, runs, cmd, timestamp, idx, cfg, dryRun, loaded, startCurrent,
                   pruneVars, confVars, loadVars, opVars>>

\* a call with a single outcome on success; a failure leaves the tracked
\* state as it was
Simple(step, next, after) ==
    /\ \E ok \in BOOLEAN : Call(step, next, ok, IF ok THEN after ELSE remote[idx])
    /\ UNCHANGED <<promoted, made>>

Dir == NewReleaseDir(idx, timestamp)
R == remote[idx]

Made(kind, dir) == [server |-> idx, kind |-> kind, name |-> Basename(dir)]

SetupReleaseDir ==
    /\ cmd = "deploy"
    /\ \E ok \in BOOLEAN :
        /\ Call("setup_release_dir", DeployNext("setup_release_dir", cfg), ok,
                IF ok THEN setup_release_dir(R, Dir) ELSE R)
        /\ made' = IF ok /\ ~dryRun THEN made \cup {Made("release_dir", Dir)} ELSE made
    /\ UNCHANGED promoted

UpdateSourceCode ==
    /\ cmd = "deploy"
    /\ Simple("update_source_code", DeployNext("update_source_code", cfg),
              update_source_code(R, Dir, cfg))

CopyEnvFile ==
    /\ cmd = "deploy"
    /\ \E ok \in BOOLEAN :
        /\ Call("copy_env_file", DeployNext("copy_env_file", cfg), ok,
                IF ok THEN copy_env_file(R, Dir, cfg) ELSE R)
        /\ made' = IF ok /\ ~dryRun THEN made \cup {Made("env_file", Dir)} ELSE made
    /\ UNCHANGED promoted

SetupSymlinks ==
    /\ cmd = "deploy"
    /\ Simple("setup_symlinks", DeployNext("setup_symlinks", cfg),
              setup_symlinks(R, Dir, cfg))

InstallRequirements ==
    /\ cmd = "deploy"
    /\ Simple("install_requirements", DeployNext("install_requirements", cfg),
              install_requirements(R, Dir, cfg))

LinkSecretsToRelease ==
    /\ cmd = "deploy"
    /\ Simple("link_secrets_to_release", DeployNext("link_secrets_to_release", cfg),
              link_secrets_to_release(R, Dir, cfg))

CollectStaticFiles ==
    /\ cmd = "deploy"
    /\ Simple("collect_static_files", DeployNext("collect_static_files", cfg),
              collect_static_files(R, Dir, cfg))

MigrateDatabase ==
    /\ cmd = "deploy"
    /\ Simple("migrate_database", DeployNext("migrate_database", cfg),
              migrate_database(R, Dir, cfg))

\* promote-release; `promoted` records what was promoted and whether every
\* step that precedes it had returned for this release on this server
UpdateSymlink ==
    /\ cmd = "deploy"
    /\ \E ok \in BOOLEAN :
        /\ Call("update_symlink", DeployNext("update_symlink", cfg), ok,
                IF ok THEN update_symlink(R, Dir, cfg) ELSE R)
        /\ promoted' =
             IF ok /\ ~dryRun
             THEN [promoted EXCEPT ![idx] =
                     /\ BeforePromote(cfg) \subseteq Succeeded(log)
                     /\ Failed(log) = {}]
             ELSE promoted
    /\ UNCHANGED made

RestartService ==
    /\ cmd = "deploy"
    /\ Simple("restart_service", DeployNext("restart_service", cfg),
              restart_service(R, cfg))

\* prune-old-releases: nothing is issued when keep_releases <= 0; otherwise
\* the listing, then one rm per old release, and any of these may raise
CleanupOldReleases ==
    /\ cmd = "deploy"
    /\ UNCHANGED <<promoted, made>>
    /\ IF KeepsAll(cfg.keep_releases)
       THEN Call("cleanup_old_releases", DeployNext("cleanup_old_releases", cfg),
                 TRUE, R)
       ELSE LET old == OldReleases(LsStdout(dryRun, R), cfg.keep_releases)
            IN \/ Call("cleanup_old_releases",
                       DeployNext("cleanup_old_releases", cfg), TRUE,
                       RemoveFirst(R, old, Len(old)))
               \/ \E n \in 0..Len(old) :
                    \* the listing (n = 0) or the (n+1)-th rm raises
                    /\ n < Len(old) \/ n = 0
                    /\ Call("cleanup_old_releases",
                            DeployNext("cleanup_old_releases", cfg), FALSE,
                            RemoveFirst(R, old, n))

CreateProjectUser ==
    /\ cmd = "setup"
    /\ Simple("create_project_user", SetupNext("create_project_user", cfg),
              create_project_user(R, cfg))

CopyAuthorizedKeys ==
    /\ cmd = "setup"
    /\ Simple("copy_authorized_keys", SetupNext("copy_authorized_keys", cfg),
              copy_authorized_keys(R, cfg))

CreateDirectoryStructure ==
    /\ cmd = "setup"
    /\ Simple("create_directory_structure",
              SetupNext("create_directory_structure", cfg),
              create_directory_structure(R, cfg))

SetupPackages ==
    /\ cmd = "setup"
    /\ Simple("setup_packages", SetupNext("setup_packages", cfg),
              setup_packages(R, cfg))

SetupVenv ==
    /\ cmd = "setup"
    /\ Simple("setup_venv", SetupNext("setup_venv", cfg), setup_venv(R, cfg))

SetupKnownHosts ==
    /\ cmd = "setup"
    /\ Simple("setup_known_hosts", SetupNext("setup_known_hosts", cfg),
              setup_known_hosts(R, cfg))

SetupService ==
    /\ cmd = "setup"
    /\ Simple("setup_service", SetupNext("setup_service", cfg),
              setup_service(R, cfg))

CopySecrets ==
    /\ cmd = "setup"
    /\ Simple("copy_secrets", SetupNext("copy_secrets", cfg), copy_secrets(R, cfg))

\* cleanup_old_releases when none of its commands raises
cleanup_old_releases(r, c) ==
    IF KeepsAll(c.keep_releases) THEN r
    ELSE LET old == OldReleases(LsStdout(FALSE, r), c.keep_releases)
         IN RemoveFirst(r, old, Len(old))

\* rm -rf one release after the other (lines 82-83) until one raises
Removals(old, n) ==
    [i \in 1..n |-> [op |-> "rm -rf", name |-> old[i]]]

\* cleanup_old_releases as one call: it returns having issued nothing, or
\* issues the listing and the removals, any of which may raise
PruneCall ==
    /\ prPc = "call"
    /\ IF KeepsAll(prKeep)
       THEN /\ prCmds' = <<>>
            /\ prRemote' = prRemote
            /\ prPc' = "returned"
       ELSE LET ls == <<[op |-> "ls -1", name |-> NoRelease]>>
                old == OldReleases(prListing, prKeep)
            IN \/ /\ prCmds' = ls \o Removals(old, Len(old))
                  /\ prRemote' = RemoveFirst(prRemote, old, Len(old))
                  /\ prPc' = "returned"
               \/ /\ prCmds' = ls
                  /\ prRemote' = prRemote
                  /\ prPc' = "raised"
               \/ \E n \in 1..Len(old) :
                    /\ prCmds' = ls \o Removals(old, n)
                    /\ prRemote' = RemoveFirst(prRemote, old, n - 1)
                    /\ prPc' = "raised"
    /\ UNCHANGED <<prListing, prKeep, deployVars, confVars, loadVars, opVars>>

\* ------------------------------------------- config/models.py: PystranoConfig
\* A Python value: None, a str, an int, a list of str or a dict of str.  A str
\* is written as the sequence of its "/"-separated components, so "" is <<>>,
\* "v1" is <<"v1">> and the absolute path "/srv/app" is <<"", "srv", "app">>.
\* The str handed to a list or boolean field is written as the sequence of its
\* tokens instead: words, and the characters " ", "\n" and ";" that the
\* validators look for.  A list is the sequence of its items, each the token
\* sequence of a str, and a dict the sequence of its <<key, value>> pairs.
PyNone == [t |-> "none", p |-> <<>>, n |-> 0]
PyStr(parts) == [t |-> "str", p |-> parts, n |-> 0]
PyInt(k) == [t |-> "int", p |-> <<>>, n |-> k]
PyList(items) == [t |-> "list", p |-> items, n |-> 0]
PyDict(pairs) == [t |-> "dict", p |-> pairs, n |-> 0]
PyBool(b) == [t |-> "bool", p |-> <<>>, n |-> IF b THEN 1 ELSE 0]

\* bool(value) of a str | None
Truthy(v) == v.t = "str" /\ v.p # <<>>

\* os.path.isabs
IsAbs(v) == v.p # <<>> /\ v.p[1] = ""

\* the join that forgets its second argument
JoinKeepsFirst(a, b) == a

\* os.path.join(a, b) for a non-empty a
Join(a, b) == IF IsAbs(b) THEN b ELSE PyStr(a.p \o b.p)

\* os.path.basename
PathBasename(v) == IF v.p = <<>> THEN PyStr(<<>>) ELSE PyStr(<<v.p[Len(v.p)]>>)

\* the strings int() accepts, among those the model draws
Numerals == {<<"2">>, <<"0">>, <<"-1">>}
IntOfNumeral(parts) ==
    CASE parts = <<"2">> -> 2
      [] parts = <<"0">> -> 0
      [] parts = <<"-1">> -> -1

\* lines 21-44: the fields modelled, and their defaults
PrimitiveFields ==
    {"revision", "clone_depth", "branch", "project_user", "project_root", "venv_dir",
     "service_file", "env_file", "host", "secrets", "ssh_known_hosts",
     "system_packages", "run_migrations", "collect_static_files"}

ListFields == {"secrets", "ssh_known_hosts", "system_packages"}
BoolFields == {"run_migrations", "collect_static_files"}

DerivedFields ==
    {"releases_dir", "current_dir", "shared_dir", "python_path", "env_vars",
     "service_file_name"}

FieldNames == PrimitiveFields \cup DerivedFields

DefaultConf ==
    [f \in FieldNames |->
       CASE f = "clone_depth" -> PyInt(1)
         [] f \in ListFields -> PyList(<<>>)
         [] f \in BoolFields -> PyBool(FALSE)
         [] f = "env_vars" -> PyDict(<<>>)
         [] OTHER -> PyNone]

\* the parse that hands on whatever integer it read
_parse_clone_depth_keeps_nonpositive(value) ==
    IF value = PyNone \/ value = PyStr(<<>>) THEN PyInt(1)
    ELSE CASE value.t = "int" -> value
           [] value.t = "bool" -> PyInt(value.n)
           [] value.t = "str" /\ value.p \in Numerals -> PyInt(IntOfNumeral(value.p))
           [] OTHER -> PyNone

\* lines 92-103: the before-validator of clone_depth
_parse_clone_depth(value) ==
    IF value = PyNone \/ value = PyStr(<<>>) THEN PyInt(1)
    ELSE LET parsed ==
                 CASE value.t = "int" -> value
                   [] value.t = "bool" -> PyInt(value.n)
                   [] value.t = "str" /\ value.p \in Numerals ->
                        PyInt(IntOfNumeral(value.p))
                   [] OTHER -> PyNone        \* int() raised
         IN IF parsed = PyNone THEN PyNone
            ELSE IF parsed.n <= 0 THEN PyNone
            ELSE parsed

\* str.strip() of a token sequence
Blank == {" ", "\n"}

RECURSIVE LStrip(_)
LStrip(tokens) ==
    IF tokens # <<>> /\ Head(tokens) \in Blank THEN LStrip(Tail(tokens)) ELSE tokens

RECURSIVE RStrip(_)
RStrip(tokens) ==
    IF tokens # <<>> /\ tokens[Len(tokens)] \in Blank
    THEN RStrip(SubSeq(tokens, 1, Len(tokens) - 1))
    ELSE tokens

Strip(tokens) == RStrip(LStrip(tokens))

\* str.split(sep) for the separators `seps`: the pieces between them, empty
\* pieces included
RECURSIVE SplitOn(_, _, _)
SplitOn(tokens, seps, piece) ==
    IF tokens = <<>> THEN <<piece>>
    ELSE IF Head(tokens) \in seps
         THEN <<piece>> \o SplitOn(Tail(tokens), seps, <<>>)
         ELSE SplitOn(Tail(tokens), seps, Append(piece, Head(tokens)))

\* str.splitlines(): as split on "\n", without the empty piece after a final
\* newline, and no piece at all for ""
SplitLines(tokens) ==
    IF tokens = <<>> THEN <<>>
    ELSE LET pieces == SplitOn(tokens, {"\n"}, <<>>)
         IN IF tokens[Len(tokens)] = "\n"
            THEN SubSeq(pieces, 1, Len(pieces) - 1)
            ELSE pieces

RECURSIVE Flatten(_)
Flatten(seqs) == IF seqs = <<>> THEN <<>> ELSE Head(seqs) \o Flatten(Tail(seqs))

\* [part.strip() for part in parts if part.strip()]
StrippedNonEmpty(parts) ==
    SelectSeq([i \in 1..Len(parts) |-> Strip(parts[i])], LAMBDA part : part # <<>>)

\* the split that keeps the pieces as they are
_split_semicolon_values_untrimmed(tokens) ==
    LET items == SplitOn(tokens, {";"}, <<>>)
    IN Flatten([i \in 1..Len(items) |-> SplitLines(items[i])])

\* lines 9-13
_split_semicolon_values(tokens) ==
    LET items == SplitOn(tokens, {";"}, <<>>)
    IN StrippedNonEmpty(Flatten([i \in 1..Len(items) |-> SplitLines(items[i])]))

\* lines 46-55: the before-validator of ssh_known_hosts and secrets; ok is
\* FALSE where it raises ValueError
_parse_semicolon_list(value) ==
    CASE value.t = "none" -> [ok |-> TRUE, value |-> PyList(<<>>)]
      [] value.t = "str" ->
           [ok |-> TRUE, value |-> PyList(_split_semicolon_values(value.p))]
      [] value.t = "list" -> [ok |-> TRUE, value |-> PyList(StrippedNonEmpty(value.p))]
      [] OTHER -> [ok |-> FALSE, value |-> PyNone]

\* lines 57-66: the before-validator of system_packages;
\* value.replace(";", " ").split() yields the words between blanks
_parse_system_packages(value) ==
    CASE value.t = "none" -> [ok |-> TRUE, value |-> PyList(<<>>)]
      [] value.t = "str" ->
           [ok |-> TRUE,
            value |-> PyList(StrippedNonEmpty(
                               SplitOn(value.p, Blank \cup {";"}, <<>>)))]
      [] value.t = "list" -> [ok |-> TRUE, value |-> PyList(StrippedNonEmpty(value.p))]
      [] OTHER -> [ok |-> FALSE, value |-> PyNone]

\* str.lower() of a word, among the words the model draws
Lower(word) ==
    CASE word = "TRUE" -> "true"
      [] word = "Yes" -> "yes"
      [] word = "On" -> "on"
      [] word = "False" -> "false"
      [] word = "NO" -> "no"
      [] word = "OFF" -> "off"
      [] OTHER -> word

\* the parse that takes any unknown word for False
_parse_bool_lenient(value) ==
    CASE value.t = "none" -> [ok |-> TRUE, value |-> PyBool(FALSE)]
      [] value.t = "bool" -> [ok |-> TRUE, value |-> value]
      [] value.t = "int" -> [ok |-> TRUE, value |-> PyBool(value.n # 0)]
      [] value.t = "str" ->
           LET stripped == Strip(value.p)
               normalized == [i \in 1..Len(stripped) |-> Lower(stripped[i])]
           IN [ok |-> TRUE,
               value |-> PyBool(normalized \in {<<"1">>, <<"true">>, <<"yes">>, <<"on">>})]
      [] OTHER -> [ok |-> FALSE, value |-> PyNone]

\* lines 68-83: the before-validator of run_migrations and
\* collect_static_files; ok is FALSE where it raises ValueError
_parse_bool(value) ==
    CASE value.t = "none" -> [ok |-> TRUE, value |-> PyBool(FALSE)]
      [] value.t = "bool" -> [ok |-> TRUE, value |-> value]
      [] value.t = "int" -> [ok |-> TRUE, value |-> PyBool(value.n # 0)]
      [] value.t = "str" ->
           LET stripped == Strip(value.p)
               normalized == [i \in 1..Len(stripped) |-> Lower(stripped[i])]
           IN IF normalized \in {<<"1">>, <<"true">>, <<"yes">>, <<"on">>}
              THEN [ok |-> TRUE, value |-> PyBool(TRUE)]
              ELSE IF normalized \in {<<"0">>, <<"false">>, <<"no">>, <<"off">>, <<>>}
              THEN [ok |-> TRUE, value |-> PyBool(FALSE)]
              ELSE [ok |-> FALSE, value |-> PyNone]
      [] OTHER -> [ok |-> FALSE, value |-> PyNone]

\* a field annotated str | None takes None and strings, nothing else
ValidOptionalStr(value) == value.t \in {"none", "str"}

FieldValid(f, value) ==
    CASE f = "clone_depth" -> TRUE
      [] f \in {"secrets", "ssh_known_hosts"} -> _parse_semicolon_list(value).ok
      [] f = "system_packages" -> _parse_system_packages(value).ok
      [] f \in BoolFields -> _parse_bool(value).ok
      [] f = "env_vars" -> value.t = "dict"
      [] OTHER -> ValidOptionalStr(value)

FieldParsed(f, value) ==
    CASE f = "clone_depth" -> _parse_clone_depth(value)
      [] f \in {"secrets", "ssh_known_hosts"} -> _parse_semicolon_list(value).value
      [] f = "system_packages" -> _parse_system_packages(value).value
      [] f \in BoolFields -> _parse_bool(value).value
      [] OTHER -> value

\* the validator that does not clear clone_depth
_apply_revision_rules_off(c) == c

\* lines 105-109: the after-validator of the model
_apply_revision_rules(c) ==
    IF Truthy(c.revision) /\ c.clone_depth # PyNone
    THEN [c EXCEPT !.clone_depth = PyNone]
    ELSE c

\* PystranoConfig(**m) / model_validate(m): extra="forbid", the field
\* validators on the keys given, defaults for the others (a default is not
\* validated), then the after-validator
ModelValidate(m) ==
    IF \/ ~(DOMAIN m \subseteq FieldNames)
       \/ \E f \in DOMAIN m : ~FieldValid(f, m[f])
    THEN [ok |-> FALSE, value |-> DefaultConf]
    ELSE [ok |-> TRUE,
          value |-> _apply_revision_rules(
                      [f \in FieldNames |->
                         IF f \in DOMAIN m THEN FieldParsed(f, m[f])
                         ELSE DefaultConf[f]])]

\* payload = self.model_dump(); payload.update(data)
Updated(c, data) ==
    [k \in FieldNames \cup DOMAIN data |-> IF k \in DOMAIN data THEN data[k] ELSE c[k]]

\* the update that writes the valid keys of a mapping that failed validation
OnInvalidUpdateWritesValidKeys(c, data) ==
    [f \in FieldNames |->
       IF f \in DOMAIN data /\ FieldValid(f, data[f]) THEN FieldParsed(f, data[f])
       ELSE c[f]]

\* line 115: model_validate raised, so lines 116-117 did not run
OnInvalidUpdate(c, data) == c

\* self.<f> = value under validate_assignment=True: the field is validated
\* and the after-validator runs (finalize_config assigns only strings, None
\* and a dict of strings)
Assign(c, f, value) == _apply_revision_rules([c EXCEPT ![f] = value])

\* finalize_config that leaves the derived paths as they were
NoProjectPathsKeepsStale(c) == c

\* lines 133-136: project_user or project_root is missing
NoProjectPaths(c) ==
    Assign(Assign(Assign(c, "releases_dir", PyNone), "current_dir", PyNone),
           "shared_dir", PyNone)

\* the derivation that prefixes project_root whatever it is
ProjectPathsAlwaysPrefix(c) ==
    LET c1 == Assign(c, "project_root",
                     PyStr(<<"", "home">> \o c.project_user.p \o c.project_root.p))
        c2 == Assign(c1, "releases_dir", Join(c1.project_root, PyStr(<<"releases">>)))
        c3 == Assign(c2, "current_dir", Join(c2.project_root, PyStr(<<"current">>)))
    IN Assign(c3, "shared_dir", Join(c3.project_root, PyStr(<<"shared">>)))

\* lines 128-132
ProjectPaths(c) ==
    LET c1 == IF ~IsAbs(c.project_root)
              THEN Assign(c, "project_root",
                          Join(Join(PyStr(<<"", "home">>), c.project_user),
                               c.project_root))
              ELSE c
        c2 == Assign(c1, "releases_dir", Join(c1.project_root, PyStr(<<"releases">>)))
        c3 == Assign(c2, "current_dir", Join(c2.project_root, PyStr(<<"current">>)))
    IN Assign(c3, "shared_dir", Join(c3.project_root, PyStr(<<"shared">>)))

\* lines 138-143
PythonPath(c) ==
    IF Truthy(c.project_user) /\ Truthy(c.venv_dir)
    THEN LET c1 == IF ~IsAbs(c.venv_dir)
                   THEN Assign(c, "venv_dir",
                               Join(Join(PyStr(<<"", "home">>), c.project_user),
                                    c.venv_dir))
                   ELSE c
         IN Assign(c1, "python_path",
                   Join(Join(c1.venv_dir, PyStr(<<"bin">>)), PyStr(<<"python">>)))
    ELSE Assign(c, "python_path", PyNone)

\* dotenv_values(path): the files of the local directory; a path that names
\* no file yields no variable
DotenvValues(v) ==
    IF v = PyStr(<<".env">>) THEN <<<<"DEBUG", "0">>, <<"SECRET_KEY", "a b">>>>
    ELSE <<>>

\* shlex.quote on the values above
Quote(s) == IF s = "a b" THEN "'a b'" ELSE s

\* lines 119-123
_load_env_file(c) ==
    IF ~Truthy(c.env_file) THEN PyDict(<<>>)
    ELSE LET kv == DotenvValues(c.env_file)
         IN PyDict([i \in 1..Len(kv) |-> <<kv[i][1], Quote(kv[i][2])>>])

\* lines 145-146
EnvAndService(c) ==
    LET c1 == Assign(c, "env_vars",
                     IF Truthy(c.env_file) THEN _load_env_file(c) ELSE PyDict(<<>>))
    IN Assign(c1, "service_file_name",
              IF Truthy(c1.service_file) THEN PathBasename(c1.service_file)
              ELSE PyNone)

\* lines 125-146: finalize_config
Finalized(c) ==
    EnvAndService(PythonPath(
        IF Truthy(c.project_user) /\ Truthy(c.project_root)
        THEN ProjectPaths(c)
        ELSE NoProjectPaths(c)))

\* the values a mapping may give for a key
RawValues(k) ==
    CASE k = "revision" -> {PyNone, PyStr(<<>>), PyStr(<<"v1">>), PyInt(7)}
      [] k = "clone_depth" ->
           {PyNone, PyStr(<<>>), PyStr(<<"abc">>), PyStr(<<"2">>), PyStr(<<"0">>),
            PyInt(-1), PyInt(0), PyInt(1), PyInt(2)}
      [] k = "project_user" -> {PyNone, PyStr(<<"web">>), PyStr(<<"bob">>)}
      [] k = "project_root" -> {PyNone, PyStr(<<"app">>), PyStr(<<"", "srv", "app">>)}
      [] k = "venv_dir" -> {PyNone, PyStr(<<"venv">>), PyStr(<<"", "opt", "venv">>)}
      [] k = "service_file" -> {PyNone, PyStr(<<"deploy", "app.service">>)}
      [] k = "env_file" -> {PyNone, PyStr(<<".env">>)}
      [] k = "unknown_field" -> {PyStr(<<"x">>)}
      [] k = "branch" -> {PyNone, PyStr(<<>>), PyStr(<<"main">>)}
      [] k = "run_migrations" ->
           {PyNone, PyBool(TRUE), PyBool(FALSE), PyInt(1), PyInt(0),
            PyStr(<<"true">>), PyStr(<<"TRUE">>), PyStr(<<"Yes">>), PyStr(<<"on">>),
            PyStr(<<"1">>), PyStr(<<" ", "yes", "\n">>),
            PyStr(<<"false">>), PyStr(<<"NO">>), PyStr(<<"off">>), PyStr(<<"0">>),
            PyStr(<<>>), PyStr(<<"maybe">>), PyStr(<<"y", " ", "es">>)}
      [] k = "collect_static_files" ->
           {PyNone, PyBool(TRUE), PyStr(<<"On">>), PyStr(<<"yes">>), PyStr(<<"False">>),
            PyStr(<<"no">>), PyStr(<<"OFF">>), PyStr(<<"enabled">>)}
      [] k = "secrets" ->
           {PyNone, PyStr(<<>>), PyInt(7),
            PyStr(<<"a.key", ";", " ", "b.key">>),
            PyStr(<<" ", "b.key", ";", ";", "\n", "a.key", "\n">>),
            PyList(<<<<"b.key">>, <<"a.key">>>>),
            PyList(<<<<" ", "a.key", " ">>, <<>>, <<" ">>, <<"b", " ", "key">>>>)}
      [] k = "ssh_known_hosts" ->
           {PyNone, PyStr(<<"github.com", "\n", "gitlab.com", ";">>),
            PyList(<<<<"gitlab.com">>, <<"github.com", " ">>>>)}
      [] k = "system_packages" ->
           {PyNone, PyInt(7), PyStr(<<"git", " ", " ", "nginx", ";", "curl">>),
            PyStr(<<"\n", "nginx", ";", " ", "git", " ">>),
            PyList(<<<<"nginx">>, <<" ", "git">>, <<" ">>>>)}

\* the keys of the mappings of one caller: one that sets what is cloned, and
\* ones that set where the project, its virtual environment and its service
\* and environment files live
SourceKeys == {"revision", "clone_depth", "project_root", "unknown_field"}
ProjectKeys == {"project_user", "project_root"}
VenvKeys == {"project_user", "venv_dir"}
FileKeys == {"service_file", "env_file"}
\* and of callers that set the flags, the lists and what is cloned from where
BoolKeys == {"run_migrations", "collect_static_files"}
ListKeys == {"secrets", "ssh_known_hosts", "system_packages"}
CloneKeys == {"revision", "clone_depth", "branch"}

DataKeys ==
    SourceKeys \cup ProjectKeys \cup VenvKeys \cup FileKeys \cup BoolKeys
    \cup ListKeys \cup CloneKeys

EmptyMapping == [k \in {} |-> PyNone]

\* the mappings of at most n keys among `keys`
RECURSIVE MappingsUpTo(_, _)
MappingsUpTo(n, keys) ==
    IF n = 0 THEN {EmptyMapping}
    ELSE LET fewer == MappingsUpTo(n - 1, keys)
         IN fewer \cup
            UNION {UNION {{m @@ (k :> v) : v \in RawValues(k)} :
                            k \in keys \ DOMAIN m} : m \in fewer}

Mappings(keys) == MappingsUpTo(MaxDataKeys, keys)

\* An operation is called when the caller of the one before has gone on.
Ready == confOp = "none"

\* PystranoConfig(**data)
Construct ==
    /\ Ready
    /\ ~confBuilt
    /\ \E data \in Mappings(confKeys) :
        LET v == ModelValidate(data)
        IN /\ confData' = data
           /\ confErr' = ~v.ok
           /\ confBuilt' = v.ok
           /\ conf' = IF v.ok THEN v.value ELSE conf
           /\ confScenario' = IF v.ok THEN "built" ELSE confScenario
           /\ confOrigData' = IF v.ok THEN data ELSE confOrigData
    /\ confOp' = "construct"
    /\ UNCHANGED <<confKeys, deployVars, pruneVars, loadVars, opVars>>

\* lines 111-117: update_dict(data)
UpdateDict ==
    /\ Ready
    /\ confBuilt
    /\ \E data \in Mappings(confKeys) :
        LET v == ModelValidate(Updated(conf, data))
            userOnly == /\ confScenario \in {"finalized", "finalized_twice"}
                        /\ DOMAIN data = {"project_user"}
                        /\ data["project_user"] # conf.project_user
        IN /\ confData' = data
           /\ confErr' = ~v.ok
           /\ conf' = IF v.ok THEN v.value ELSE OnInvalidUpdate(conf, data)
           /\ confScenario' = IF ~v.ok THEN confScenario
                              ELSE IF userOnly THEN "changed" ELSE "off"
           /\ confOrigData' = IF ~v.ok \/ userOnly THEN confOrigData ELSE EmptyMapping
    /\ confOp' = "update_dict"
    /\ UNCHANGED <<confBuilt, confKeys, deployVars, pruneVars, loadVars, opVars>>

\* lines 125-146: finalize_config()
FinalizeConfig ==
    /\ Ready
    /\ confBuilt
    /\ conf' = Finalized(conf)
    /\ confOp' = "finalize_config"
    /\ confData' = EmptyMapping
    /\ confErr' = FALSE
    /\ confScenario' = CASE confScenario = "built" -> "finalized"
                         [] confScenario = "finalized" -> "finalized_twice"
                         [] confScenario = "changed" -> "refinalized"
                         [] OTHER -> confScenario
    /\ UNCHANGED <<confBuilt, confKeys, confOrigData, deployVars, pruneVars, loadVars, opVars>>

ConfigIdle ==
    /\ conf = DefaultConf
    /\ confBuilt = FALSE
    /\ confOp = "none"
    /\ confData = EmptyMapping
    /\ confErr = FALSE
    /\ confKeys = SourceKeys
    /\ confScenario = "off"
    /\ confOrigData = EmptyMapping

\* the caller has seen the outcome of the operation and goes on
CallerContinues ==
    /\ ~Ready
    /\ confOp' = "none"
    /\ confData' = EmptyMapping
    /\ confErr' = FALSE
    /\ UNCHANGED <<conf, confBuilt, confKeys, confScenario, confOrigData,
                   deployVars, pruneVars, loadVars, opVars>>

NextConfig ==
    \/ Construct
    \/ UpdateDict
    \/ FinalizeConfig
    \/ CallerContinues

\* --------------------------------------------------------- config/loader.py
\* What safe_load returned: nothing (an empty file), or a mapping with some of
\* the top-level keys, the mapping under common and the list under servers.
TopKeys == {"common", "servers", "extra"}

NoDocument ==
    [parsed |-> FALSE, keys |-> {}, common |-> EmptyMapping, servers |-> <<>>]

\* lines 9-15: DeploymentConfigFile, both fields required, extra="forbid"
SchemaValidIgnoresExtra(doc) == {"common", "servers"} \subseteq doc.keys

SchemaValid(doc) == doc.keys = {"common", "servers"}

\* line 29 with the dictionaries swapped
MergedCommonWins(server_description, common_config) ==
    [k \in DOMAIN common_config \cup DOMAIN server_description |->
       IF k \in DOMAIN common_config THEN common_config[k]
       ELSE server_description[k]]

\* line 29: {**common_config, **server_description}
Merged(server_description, common_config) ==
    [k \in DOMAIN common_config \cup DOMAIN server_description |->
       IF k \in DOMAIN server_description THEN server_description[k]
       ELSE common_config[k]]

Unknown == PyStr(<<"<unknown>">>)

\* the message that never names the host
ErrorHostUnknown(server_description) == Unknown

\* line 33: server_description.get("host", "<unknown>")
ErrorHost(server_description) ==
    IF "host" \in DOMAIN server_description THEN server_description["host"]
    ELSE Unknown

\* lines 27-38: create_server_config
create_server_config(server_description, common_config) ==
    LET v == ModelValidate(Merged(server_description, common_config))
    IN IF v.ok THEN [ok |-> TRUE, value |-> Finalized(v.value)]
       ELSE [ok |-> FALSE, value |-> v.value]

\* a load that hands over the configurations built before the error
OnLoadErrorReturnsBuilt(server_configs) == server_configs

\* lines 62-65: the raise leaves the caller without server_configs
OnLoadError(server_configs) == <<>>

NoError == [kind |-> "none", index |-> -1, host |-> PyNone]

\* the entries of servers, and the mappings under common, the model draws
ServerEntries ==
    {EmptyMapping,
     "host" :> PyStr(<<"a.example.com">>),
     ("host" :> PyStr(<<"b.example.com">>)) @@ ("secrets" :> PyList(<<<<"b.key">>>>)),
     ("host" :> PyStr(<<"b.example.com">>)) @@ ("project_root" :> PyInt(7)),
     "project_root" :> PyInt(7),
     "project_root" :> PyStr(<<"", "srv", "app">>)}

CommonMappings ==
    {EmptyMapping,
     ("project_user" :> PyStr(<<"web">>)) @@ ("project_root" :> PyStr(<<"app">>)),
     ("project_user" :> PyStr(<<"web">>)) @@ ("secrets" :> PyList(<<<<"a.key">>>>)),
     "project_user" :> PyInt(7)}

SeqsUpTo(S, n) == UNION {[1..k -> S] : k \in 0..n}

Documents ==
    {NoDocument} \cup
    {[parsed |-> TRUE, keys |-> K, common |-> c, servers |-> ss] :
       K \in SUBSET TopKeys,
       c \in CommonMappings,
       ss \in SeqsUpTo(ServerEntries, MaxServerEntries)}

\* lines 46-56: the checks on the parsed document
LoadValidate ==
    /\ ldPc = "start"
    /\ IF ~ldDoc.parsed
       THEN /\ ldPc' = "raised"
            /\ ldError' = [NoError EXCEPT !.kind = "empty"]
       ELSE IF ~SchemaValid(ldDoc)
       THEN /\ ldPc' = "raised"
            /\ ldError' = [NoError EXCEPT !.kind = "schema"]
       ELSE IF ldDoc.servers = <<>>
       THEN /\ ldPc' = "raised"
            /\ ldError' = [NoError EXCEPT !.kind = "servers_empty"]
       ELSE /\ ldPc' = "loop"
            /\ ldError' = ldError
    /\ UNCHANGED <<ldDoc, ldIndex, ldConfigs, ldReturned, deployVars, pruneVars, confVars, opVars>>

\* lines 59-65: one iteration of the loop over config_file.servers
LoadServer ==
    /\ ldPc = "loop"
    /\ ldIndex < Len(ldDoc.servers)
    /\ LET server == ldDoc.servers[ldIndex + 1]
           r == create_server_config(server, ldDoc.common)
       IN IF r.ok
          THEN /\ ldConfigs' = Append(ldConfigs, r.value)
               /\ ldIndex' = ldIndex + 1
               /\ UNCHANGED <<ldPc, ldError, ldReturned>>
          ELSE /\ ldPc' = "raised"
               /\ ldError' = [kind |-> "server", index |-> ldIndex,
                              host |-> ErrorHost(server)]
               /\ ldReturned' = OnLoadError(ldConfigs)
               /\ UNCHANGED <<ldIndex, ldConfigs>>
    /\ UNCHANGED <<ldDoc, deployVars, pruneVars, confVars, opVars>>

\* line 67: return server_configs
LoadReturn ==
    /\ ldPc = "loop"
    /\ ldIndex = Len(ldDoc.servers)
    /\ ldPc' = "returned"
    /\ ldReturned' = ldConfigs
    /\ UNCHANGED <<ldDoc, ldIndex, ldConfigs, ldError, deployVars, pruneVars, confVars, opVars>>

NextLoad ==
    \/ LoadValidate
    \/ LoadServer
    \/ LoadReturn

LoadIdle ==
    /\ ldDoc = NoDocument
    /\ ldPc = "idle"
    /\ ldIndex = 0
    /\ ldConfigs = <<>>
    /\ ldReturned = <<>>
    /\ ldError = NoError

\* --------------------------------------------- core.py: one call, by command
\* The commands a single call of an operation issues on its connection.
OpNames == {"create_project_user", "try_to_remove_release_dir", "update_source_code"}

Command(op) ==
    [op |-> op, depth |-> PyNone, branch |-> PyNone, revision |-> PyNone,
     inDir |-> FALSE]

\* the release directory the call is handed
OpDir == NewReleaseDir(1, 1)

\* the creation that does not look at the probe
MutatesAlways(failed) == TRUE

\* line 92: if result.failed
MutatesWhen(failed) == failed

\* line 90: id -u exits non-zero exactly when the user is unknown
ProbeFails(r) == ~r.user

\* the handler that raises again
OnRemoveErrorReraises == "raised"

\* lines 162-163: except Exception: print(...)
OnRemoveError == "returned"

\* a missing clone_depth read as the default of getattr
DepthArgDefault(c) == IF c.clone_depth = PyNone THEN PyInt(1) ELSE c.clone_depth

\* lines 16-18: --depth is passed when clone_depth is truthy
DepthArg(c) ==
    IF c.clone_depth.t = "int" /\ c.clone_depth.n # 0 THEN c.clone_depth ELSE PyNone

\* lines 20-22: --branch is passed when branch is truthy
BranchArg(c) == IF Truthy(c.branch) THEN c.branch ELSE PyNone

\* lines 14-32: the commands of update_source_code, in order
update_source_code_cmds(c) ==
    <<[Command("git clone --single-branch") EXCEPT
          !.depth = DepthArg(c), !.branch = BranchArg(c)]>>
    \o (IF Truthy(c.revision)
        THEN <<[Command("git fetch --tags --force") EXCEPT !.inDir = TRUE],
               [Command("git checkout") EXCEPT !.revision = c.revision,
                                               !.inDir = TRUE]>>
        ELSE <<>>)

\* the configurations construct, or construct and one update_dict, produce
\* for a caller that sets what is cloned
Constructed ==
    {ModelValidate(m).value : m \in {d \in Mappings(CloneKeys) : ModelValidate(d).ok}}

ProducedConfigs ==
    Constructed \cup
    UNION {{ModelValidate(Updated(c, m)).value :
              m \in {d \in Mappings(CloneKeys) : ModelValidate(Updated(c, d)).ok}} :
             c \in Constructed}

\* lines 86-97: create_project_user; the probe runs with warn=True and does
\* not raise on a non-zero exit, each sudo may raise
CreateProjectUserCall ==
    /\ opName = "create_project_user"
    /\ opPc = "call"
    /\ LET failed == ProbeFails(opRemote)
           probe == <<Command("id -u")>>
           useradd == Command("useradd -m -s /bin/bash")
           sudoers == Command("echo sudoers_entry > /etc/sudoers.d/project_user")
       IN /\ opProbeFailed' = failed
          /\ IF MutatesWhen(failed)
             THEN \/ /\ opCmds' = probe \o <<useradd, sudoers>>
                     /\ opRemote' = [opRemote EXCEPT !.user = TRUE, !.sudoers = TRUE]
                     /\ opPc' = "returned"
                  \/ /\ opCmds' = probe \o <<useradd>>
                     /\ opRemote' = opRemote
                     /\ opPc' = "raised"
                  \/ /\ opCmds' = probe \o <<useradd, sudoers>>
                     /\ opRemote' = [opRemote EXCEPT !.user = TRUE]
                     /\ opPc' = "raised"
             ELSE /\ opCmds' = probe
                  /\ opRemote' = opRemote
                  /\ opPc' = "returned"
    /\ UNCHANGED <<opName, opConf, opCalls, opReported, deployVars, pruneVars,
                   confVars, loadVars>>

\* lines 158-163: try_to_remove_release_dir; rm -rf removes the directory or
\* raises
TryToRemoveReleaseDirCall ==
    /\ opName = "try_to_remove_release_dir"
    /\ opPc = "call"
    /\ opCmds' = <<Command("rm -rf")>>
    /\ \/ /\ opRemote' = RemoveRelease(opRemote, Basename(OpDir))
          /\ opReported' = FALSE
          /\ opPc' = "returned"
       \/ /\ opRemote' = opRemote
          /\ opReported' = TRUE
          /\ opPc' = OnRemoveError
    /\ UNCHANGED <<opName, opConf, opCalls, opProbeFailed, deployVars, pruneVars,
                   confVars, loadVars>>

\* lines 12-32: update_source_code; the commands run in order until one raises
UpdateSourceCodeCall ==
    /\ opName = "update_source_code"
    /\ opPc = "call"
    /\ LET cmds == update_source_code_cmds(opConf)
       IN \/ /\ opCmds' = cmds
             /\ opPc' = "returned"
          \/ \E n \in 1..Len(cmds) :
               /\ opCmds' = SubSeq(cmds, 1, n)
               /\ opPc' = "raised"
    /\ opRemote' = update_source_code(opRemote, OpDir, opConf)
    /\ UNCHANGED <<opName, opConf, opCalls, opProbeFailed, opReported, deployVars,
                   pruneVars, confVars, loadVars>>

\* the caller calls the operation once more on the same host
OpAgain ==
    /\ opPc \in {"returned", "raised"}
    /\ opCalls < MaxCalls
    /\ opCalls' = opCalls + 1
    /\ opPc' = "call"
    /\ opCmds' = <<>>
    /\ opProbeFailed' = FALSE
    /\ opReported' = FALSE
    /\ UNCHANGED <<opName, opConf, opRemote, deployVars, pruneVars, confVars, loadVars>>

NextOp ==
    \/ CreateProjectUserCall
    \/ TryToRemoveReleaseDirCall
    \/ UpdateSourceCodeCall
    \/ OpAgain

OpIdle ==
    /\ opName = "none"
    /\ opConf = DefaultConf
    /\ opRemote = EmptyRemote
    /\ opCmds = <<>>
    /\ opPc = "idle"
    /\ opCalls = 0
    /\ opProbeFailed = FALSE
    /\ opReported = FALSE

\* ------------------------------ deploy.py: the arguments deploy() hands on
\* what an f-string makes of a str | None: None is printed as "None"
FStr(v) == IF v = PyNone THEN <<"None">> ELSE v.p

\* deploy.py line 185, as a path component
TimestampName == "20240101120000"

\* deploy.py line 191: f"{server_config.releases_dir}/{timestamp}"
NewReleasePath(c) == FStr(c.releases_dir) \o <<TimestampName>>

\* one call of run or put: what is read locally (put) or linked to (ln), and
\* the remote path that is written or run
TransportCall(kind, local, path) == [op |-> kind, local |-> local, path |-> path]

\* deploy.py lines 203-214: the calls of setup_release_dir (core.py 9),
\* update_source_code (24-26), copy_env_file (168-169), setup_symlinks
\* (37-40) and install_requirements (45-46), none of them under a condition
DeployHeadCalls(c) ==
    LET dir == NewReleasePath(c)
        shared == FStr(c.shared_dir)
        snapshot == shared \o <<".env." \o TimestampName>>
    IN <<TransportCall("run mkdir -p", PyNone, dir),
         TransportCall("run git clone", PyNone, dir),
         TransportCall("put", c.env_file, snapshot),
         TransportCall("run ln -sfn", PyStr(shared \o <<"media">>), dir \o <<"media">>),
         TransportCall("run ln -sfn", PyStr(snapshot), shared \o <<".env">>),
         TransportCall("run pip install", PyNone, FStr(c.venv_dir) \o <<"bin", "pip">>)>>

\* the configurations load_config hands to deploy(), from entries that name
\* some of these keys
ArgKeys == {"project_user", "project_root", "venv_dir", "env_file"}

LoadedConfigs ==
    {create_server_config(m, EmptyMapping).value :
        m \in {d \in Mappings(ArgKeys) : ModelValidate(d).ok}}

\* the first five steps of deploy() for one server: the calls are made in
\* order until one raises
DeployHeadCall ==
    /\ opName = "deploy"
    /\ opPc = "call"
    /\ LET calls == DeployHeadCalls(opConf)
       IN \/ /\ opCmds' = calls
             /\ opPc' = "returned"
          \/ \E n \in 1..Len(calls) :
               /\ opCmds' = SubSeq(calls, 1, n)
               /\ opPc' = "raised"
    /\ UNCHANGED <<opName, opConf, opRemote, opCalls, opProbeFailed, opReported,
                   deployVars, pruneVars, confVars, loadVars>>

\* ------------------------------------- core.py: an operation called again
\* the operations called twice in succession with the same arguments
IdemOps ==
    {"setup_release_dir", "setup_symlinks", "update_symlink",
     "create_directory_structure", "setup_known_hosts", "link_secrets_to_release",
     "cleanup_old_releases"}

\* known_hosts written anew: ssh-keyscan > known_hosts
known_hosts_lines_overwritten(lines, c) == <<"github.com">> \o c.ssh_known_hosts

\* setup_known_hosts, lines 143-146: the hosts whose keys are the lines of
\* known_hosts after ssh-keyscan github.com >> known_hosts and the same for
\* every host of conf.ssh_known_hosts
known_hosts_lines(lines, c) == lines \o <<"github.com">> \o c.ssh_known_hosts

\* the remote state after operation `name` has run all of its commands; here
\* the state of a host has the lines of known_hosts as well
RemoteOp(name, r, dir, c) ==
    CASE name = "setup_release_dir" -> setup_release_dir(r, dir)
      [] name = "setup_symlinks" -> setup_symlinks(r, dir, c)
      [] name = "update_symlink" -> update_symlink(r, dir, c)
      [] name = "create_directory_structure" -> create_directory_structure(r, c)
      [] name = "setup_known_hosts" ->
             [setup_known_hosts(r, c) EXCEPT !.knownHosts = known_hosts_lines(@, c)]
      [] name = "link_secrets_to_release" -> link_secrets_to_release(r, dir, c)
      [] name = "cleanup_old_releases" -> cleanup_old_releases(r, c)

\* one call: every command succeeds, or the first one raises
RemoteOpCall ==
    /\ opName \in IdemOps
    /\ opPc = "call"
    /\ \/ /\ opRemote' = RemoteOp(opName, opRemote, OpDir, opConf)
          /\ opPc' = "returned"
       \/ /\ opRemote' = opRemote
          /\ opPc' = "raised"
    /\ UNCHANGED <<opName, opConf, opCmds, opCalls, opProbeFailed, opReported,
                   deployVars, pruneVars, confVars, loadVars>>

\* the operation has returned and is called again with the same arguments
RemoteOpAgain ==
    /\ opName \in IdemOps
    /\ opPc = "returned"
    /\ opCalls < MaxCalls
    /\ opCalls' = opCalls + 1
    /\ opPc' = "call"
    /\ UNCHANGED <<opName, opConf, opRemote, opCmds, opProbeFailed, opReported,
                   deployVars, pruneVars, confVars, loadVars>>

NextRemoteOp ==
    \/ RemoteOpCall
    \/ RemoteOpAgain

PruneIdle ==
    /\ prListing = <<>>
    /\ prKeep = 0
    /\ prRemote = EmptyRemote
    /\ prCmds = <<>>
    /\ prPc = "returned"

DeployIdle ==
    /\ clock = 0
    /\ runs = 0
    /\ cmd = "none"
    /\ timestamp = NoRelease
    /\ idx = 0
    /\ pc = "idle"
    /\ cfg = NoConfig
    /\ log = <<>>
    /\ status = [s \in Servers |-> "pending"]
    /\ remote = [s \in Servers |-> EmptyRemote]
    /\ dryRun = FALSE
    /\ loaded = FALSE
    /\ startCurrent = [s \in Servers |-> NoRelease]
    /\ promoted = [s \in Servers |-> FALSE]
    /\ made = {}

\* sequences without repetition over S: the entries of a directory, in any order
RECURSIVE Listings(_)
Listings(S) ==
    {<<>>} \cup UNION {{<<x>> \o l : l \in Listings(S \ {x})} : x \in S}

\* a call of cleanup_old_releases with any keep_releases on any listing
PruneInit ==
    /\ prListing \in Listings(1..MaxListing)
    /\ prKeep \in -1..MaxKeep
    /\ prRemote = [EmptyRemote EXCEPT !.releases = Range(prListing)]
    /\ prCmds = <<>>
    /\ prPc = "call"
    /\ DeployIdle
    /\ ConfigIdle
    /\ LoadIdle
    /\ OpIdle

SpecPrune == PruneInit /\ [][PruneCall]_vars

ConfigInit == ConfigIdle /\ PruneIdle /\ DeployIdle /\ LoadIdle /\ OpIdle

SpecConfig == ConfigInit /\ [][NextConfig]_vars

\* the same object in the hands of a caller that sets where things live
FinalizeInit ==
    /\ conf = DefaultConf
    /\ confBuilt = FALSE
    /\ confOp = "none"
    /\ confData = EmptyMapping
    /\ confErr = FALSE
    /\ confKeys \in {ProjectKeys, VenvKeys, FileKeys}
    /\ confScenario = "off"
    /\ confOrigData = EmptyMapping
    /\ PruneIdle
    /\ DeployIdle
    /\ LoadIdle
    /\ OpIdle

SpecFinalize == FinalizeInit /\ [][NextConfig]_vars

\* the same object in the hands of a caller that sets the flags or the lists
CoerceInit ==
    /\ conf = DefaultConf
    /\ confBuilt = FALSE
    /\ confOp = "none"
    /\ confData = EmptyMapping
    /\ confErr = FALSE
    /\ confKeys \in {BoolKeys, ListKeys}
    /\ confScenario = "off"
    /\ confOrigData = EmptyMapping
    /\ PruneIdle
    /\ DeployIdle
    /\ LoadIdle
    /\ OpIdle

SpecCoerce == CoerceInit /\ [][NextConfig]_vars

\* a call of load_config on any document
LoadInit ==
    /\ ldDoc \in Documents
    /\ ldPc = "start"
    /\ ldIndex = 0
    /\ ldConfigs = <<>>
    /\ ldReturned = <<>>
    /\ ldError = NoError
    /\ PruneIdle
    /\ DeployIdle
    /\ ConfigIdle
    /\ OpIdle

SpecLoad == LoadInit /\ [][NextLoad]_vars

\* calls of one operation on a host where the user and the release directory
\* exist or not
OpInit ==
    /\ opName \in OpNames
    /\ opConf \in (IF opName = "update_source_code" THEN ProducedConfigs
                   ELSE {DefaultConf})
    /\ \E u \in BOOLEAN, rel \in SUBSET {Basename(OpDir)} :
          opRemote = [EmptyRemote EXCEPT !.user = u, !.sudoers = u, !.releases = rel]
    /\ opCmds = <<>>
    /\ opPc = "call"
    /\ opCalls = 1
    /\ opProbeFailed = FALSE
    /\ opReported = FALSE
    /\ PruneIdle
    /\ DeployIdle
    /\ ConfigIdle
    /\ LoadIdle

SpecOp == OpInit /\ [][NextOp]_vars

\* any of the operations on a host with any releases and a known_hosts file
\* that is empty or was filled by an earlier set_up
RemoteOpInit ==
    /\ opName \in IdemOps
    /\ \E k \in 0..MaxKeep, h \in {<<>>, <<"gitlab.com">>} :
          opConf = [ssh_known_hosts |-> h] @@ [NoConfig EXCEPT !.keep_releases = k]
    /\ \E S \in SUBSET (1..MaxListing), k \in {<<>>, <<"github.com">>} :
          opRemote = [knownHosts |-> k] @@ [EmptyRemote EXCEPT !.releases = S]
    /\ opCmds = <<>>
    /\ opPc = "call"
    /\ opCalls = 1
    /\ opProbeFailed = FALSE
    /\ opReported = FALSE
    /\ PruneIdle
    /\ DeployIdle
    /\ ConfigIdle
    /\ LoadIdle

SpecRemoteOp == RemoteOpInit /\ [][NextRemoteOp]_vars

\* deploy() reaches a server with any configuration load_config returns
DeployHeadInit ==
    /\ opName = "deploy"
    /\ opConf \in LoadedConfigs
    /\ opRemote = EmptyRemote
    /\ opCmds = <<>>
    /\ opPc = "call"
    /\ opCalls = 1
    /\ opProbeFailed = FALSE
    /\ opReported = FALSE
    /\ PruneIdle
    /\ DeployIdle
    /\ ConfigIdle
    /\ LoadIdle

SpecDeployHead == DeployHeadInit /\ [][DeployHeadCall]_vars

Init ==
    /\ PruneIdle
    /\ ConfigIdle
    /\ LoadIdle
    /\ OpIdle
    /\ clock = 0
    /\ runs = 0
    /\ cmd = "none"
    /\ timestamp = NoRelease
    /\ idx = 0
    /\ pc = "idle"
    /\ cfg = NoConfig
    /\ log = <<>>
    /\ status = [s \in Servers |-> "pending"]
    /\ remote = [s \in Servers |-> EmptyRemote]
    /\ dryRun = FALSE
    /\ loaded = FALSE
    /\ startCurrent = [s \in Servers |-> NoRelease]
    /\ promoted = [s \in Servers |-> FALSE]
    /\ made = {}

Next ==
    \/ InvokeDeploy
    \/ InvokeSetup
    \/ LoopNext
    \/ LoopEnd
    \/ SetupReleaseDir
    \/ UpdateSourceCode
    \/ CopyEnvFile
    \/ SetupSymlinks
    \/ InstallRequirements
    \/ LinkSecretsToRelease
    \/ CollectStaticFiles
    \/ MigrateDatabase
    \/ UpdateSymlink
    \/ RestartService
    \/ CleanupOldReleases
    \/ CreateProjectUser
    \/ CopyAuthorizedKeys
    \/ CreateDirectoryStructure
    \/ SetupPackages
    \/ SetupVenv
    \/ SetupKnownHosts
    \/ SetupService
    \/ CopySecrets

Spec == Init /\ [][Next]_vars

\* deploy invocations only.  deploy() is one sequential loop: whenever a
\* statement can run, it does, so the steps are taken under weak fairness.
NextDeploy ==
    \/ InvokeDeploy
    \/ LoopNext
    \/ LoopEnd
    \/ SetupReleaseDir
    \/ UpdateSourceCode
    \/ CopyEnvFile
    \/ SetupSymlinks
    \/ InstallRequirements
    \/ LinkSecretsToRelease
    \/ CollectStaticFiles
    \/ MigrateDatabase
    \/ UpdateSymlink
    \/ RestartService
    \/ CleanupOldReleases

\* one deploy run on servers nothing was deployed to
DeployLiveInit ==
    /\ PruneIdle
    /\ ConfigIdle
    /\ LoadIdle
    /\ OpIdle
    /\ clock = 0
    /\ runs = MaxRuns - 1
    /\ cmd = "none"
    /\ timestamp = NoRelease
    /\ idx = 0
    /\ pc = "idle"
    /\ cfg = NoConfig
    /\ log = <<>>
    /\ status = [s \in Servers |-> "pending"]
    /\ remote = [s \in Servers |-> EmptyRemote]
    /\ dryRun = FALSE
    /\ loaded = FALSE
    /\ startCurrent = [s \in Servers |-> NoRelease]
    /\ promoted = [s \in Servers |-> FALSE]
    /\ made = {}

SpecDeployLive == DeployLiveInit /\ [][NextDeploy]_vars /\ WF_vars(NextDeploy)

\* every way an invocation of main() can go
NextMain ==
    \/ Next
    \/ InvokeInvalid
    \/ InvokeLoadFails

SpecMain == Init /\ [][NextMain]_vars

\* the status the process ends with: 0 when main() returns, 1 from exit(1)
ExitStatus ==
    IF pc = "done" THEN 0 ELSE IF pc = "exit1" THEN 1 ELSE -1

\* what real invocations may have left on a server before a rehearsal
PriorRemotes ==
    {EmptyRemote,
     [EmptyRemote EXCEPT !.user = TRUE, !.sudoers = TRUE, !.dirs = TRUE],
     [EmptyRemote EXCEPT !.user = TRUE, !.sudoers = TRUE, !.dirs = TRUE,
                         !.releases = {1, 2}, !.current = 1,
                         !.envs = {1, 2}, !.envLink = 2]}

\* invocations with --dry-run, at a time later than the releases there are
DryRunInit ==
    /\ PruneIdle
    /\ ConfigIdle
    /\ LoadIdle
    /\ OpIdle
    /\ clock = 2
    /\ runs = 0
    /\ cmd = "none"
    /\ timestamp = NoRelease
    /\ idx = 0
    /\ pc = "idle"
    /\ cfg = NoConfig
    /\ log = <<>>
    /\ status = [s \in Servers |-> "pending"]
    /\ remote \in [Servers -> PriorRemotes]
    /\ dryRun = TRUE
    /\ loaded = FALSE
    /\ startCurrent = [s \in Servers |-> NoRelease]
    /\ promoted = [s \in Servers |-> FALSE]
    /\ made = {}

SpecDryRun == DryRunInit /\ [][Next]_vars

\* deploy.py line 185: timestamp is datetime.now(), the naive local time of
\* the machine that runs the deploy.  An earlier deploy run where the clock
\* was ahead (another machine, another time zone, before the clock was set
\* back) has left a name that sorts after the ones taken from now on, here
\* MaxListing + 1; the name 1 is one that sorts before them.
PriorReleases == SUBSET {1, MaxListing + 1}

\* servers provisioned and deployed to before, by deploys that did not promote
PriorInit ==
    /\ PruneIdle
    /\ ConfigIdle
    /\ LoadIdle
    /\ OpIdle
    /\ clock = 1
    /\ runs = 0
    /\ cmd = "none"
    /\ timestamp = NoRelease
    /\ idx = 0
    /\ pc = "idle"
    /\ cfg = NoConfig
    /\ log = <<>>
    /\ status = [s \in Servers |-> "pending"]
    /\ \E S \in PriorReleases :
          remote = [s \in Servers |->
                      [EmptyRemote EXCEPT !.releases = S, !.envs = S, !.user = TRUE,
                                          !.sudoers = TRUE, !.dirs = TRUE]]
    /\ dryRun = FALSE
    /\ loaded = FALSE
    /\ startCurrent = [s \in Servers |-> NoRelease]
    /\ promoted = [s \in Servers |-> FALSE]
    /\ made = {}

SpecPrior == PriorInit /\ [][Next]_vars

\* ------------------------------------------------------------------ claims
StepNames(l) == [i \in 1..Len(l) |-> l[i].step]

IsPrefix(a, b) == Len(a) <= Len(b) /\ SubSeq(b, 1, Len(a)) = a

Opt(cond, step) == IF cond THEN <<step>> ELSE <<>>

\* the deploy steps for configuration c, in the order the specification gives
DeployPlan(c) ==
    <<"setup_release_dir", "update_source_code", "copy_env_file", "setup_symlinks",
      "install_requirements">>
    \o Opt(c.secrets, "link_secrets_to_release")
    \o Opt(c.collect_static_files, "collect_static_files")
    \o Opt(c.run_migrations, "migrate_database")
    \o <<"update_symlink">>
    \o Opt(c.service_file, "restart_service")
    \o <<"cleanup_old_releases">>

InDeploy == cmd = "deploy" /\ idx >= 1

\* C1: on every server, whenever current_dir points to a release, that release
\* was promoted after create-release-dir, fetch-source, upload-env-file,
\* link-shared-resources, install-dependencies and every enabled conditional
\* step had all returned without failure for it on that server.
C1_PromoteOnlyAfterAllSteps ==
    \A s \in Servers : remote[s].current # NoRelease => promoted[s]

\* C1 witness: a release with all three conditional steps enabled is current.
C1_Witness ==
    /\ InDeploy
    /\ cfg.secrets /\ cfg.collect_static_files /\ cfg.run_migrations
    /\ remote[idx].current = timestamp
    /\ {"link_secrets_to_release", "collect_static_files", "migrate_database"}
         \subseteq Succeeded(log)

\* C2: the calls made for a server are always an initial part of the order
\* create-release-dir, fetch-source, upload-env-file, link-shared-resources,
\* install-dependencies, [link-secrets], [collect-static], [migrate],
\* promote-release, [restart-service], prune-old-releases; a step starts only
\* after the one before it returned, and a completed server ran all of them.
C2_DeployStepOrder ==
    InDeploy =>
        /\ IsPrefix(StepNames(log), DeployPlan(cfg))
        /\ \A i \in 1..Len(log) : ~log[i].ok => i = Len(log)
        /\ status[idx] = "completed" => StepNames(log) = DeployPlan(cfg)
        /\ status[idx] = "running" /\ pc # "loop"
             => pc = DeployPlan(cfg)[Len(log) + 1]

\* C2 witness: a server with every conditional step enabled has completed.
C2_Witness ==
    /\ InDeploy
    /\ status[idx] = "completed"
    /\ Len(log) = 11
    /\ \E i, j, k \in 1..Len(log) :
        /\ i < j /\ j < k
        /\ log[i].step = "install_requirements"
        /\ log[j].step = "update_symlink"
        /\ log[k].step = "restart_service"

FailedBeforePromote ==
    /\ InDeploy
    /\ pc = "exit1"
    /\ Failed(log) \cap BeforePromote(cfg) # {}

\* C3: once a failure of a step before promote-release has been handled, the
\* server's partial release directory is gone, unless the removal was
\* attempted and failed itself.
C3_PartialReleaseRemoved ==
    FailedBeforePromote =>
        \/ timestamp \notin remote[idx].releases
        \/ /\ Len(log) >= 1
           /\ log[Len(log)] = [step |-> "try_to_remove_release_dir", ok |-> FALSE]

\* C4: when the deploy of a server has failed, every later server of the list
\* still has its workflow started.
C4_LaterServersStillDeployed ==
    (cmd = "deploy" /\ Ended) => \A s \in Servers : status[s] # "pending"

\* C5: only a returning promote-release of the server's own deploy changes its
\* current_dir; whatever else has run, current_dir is where it was when the
\* invocation started.
C5_CurrentDirOnlyByPromote ==
    /\ [][\A s \in Servers :
            remote'[s].current # remote[s].current
                => cmd = "deploy" /\ pc = "update_symlink" /\ s = idx]_vars
    /\ [](\A s \in Servers :
            (cmd = "setup" \/ s > idx \/ (s = idx /\ "update_symlink" \notin Succeeded(log)))
                => remote[s].current = startCurrent[s])

\* C5 witness: a deploy failed before promote-release on a server whose
\* current_dir points to an earlier release.
C5_Witness ==
    /\ FailedBeforePromote
    /\ timestamp \in remote[idx].releases
    /\ remote[idx].current # NoRelease
    /\ remote[idx].current = startCurrent[idx]

\* C6: every release directory created and every env snapshot uploaded during
\* one deploy invocation, on whatever server, is named by the one timestamp
\* taken when the invocation started.
C6_OneTimestampPerInvocation ==
    /\ \A m \in made : m.name = timestamp
    /\ \A s \in Servers :
        (InDeploy /\ "setup_symlinks" \in Succeeded(log) /\ s = idx)
            => remote[s].envLink = timestamp

\* C6 witness: two servers have a release directory and an env snapshot from
\* the same invocation.
C6_Witness ==
    \E a, b \in made :
        /\ a.server # b.server
        /\ a.kind = "release_dir" /\ b.kind = "env_file"
        /\ a.name = b.name

\* C7: in both workflows a server's first step is issued only when every
\* server before it in the list has completed or aborted, and at most one
\* server is being worked on.
C7_ServersSequential ==
    /\ \A i, j \in Servers :
        (i < j /\ status[j] # "pending") => status[i] \in {"completed", "aborted"}
    /\ Cardinality({s \in Servers : status[s] = "running"}) <= 1
    /\ \A s \in Servers : status[s] = "running" => s = idx

\* C7 witness: set_up works on the second server after the first has completed.
C7_Witness ==
    /\ cmd = "setup"
    /\ status[1] = "completed"
    /\ status[2] = "running"
    /\ Len(log) >= 1

\* the m lowest names of S
RECURSIVE Lowest(_, _)
Lowest(S, m) ==
    IF m <= 0 \/ S = {} THEN {}
    ELSE LET x == CHOOSE y \in S : \A z \in S : y <= z
         IN {x} \cup Lowest(S \ {x}, m - 1)

\* C8: a prune with keep_releases = K > 0 that returns has removed exactly the
\* N-K lowest names of the N listed (none when N <= K), in whatever order the
\* listing came, and at most K remain.
C8_PruneRemovesOldest ==
    (prPc = "returned" /\ prKeep > 0) =>
        LET all == Range(prListing)
            removed == all \ prRemote.releases
        IN /\ removed = Lowest(all, Len(prListing) - prKeep)
           /\ Cardinality(prRemote.releases) <= prKeep

\* C9: a prune with keep_releases <= 0 returns having issued no command, the
\* listing included, and releases_dir holds what it held.
C9_PruneUnlimitedIsNoop ==
    (prPc # "call" /\ prKeep <= 0) =>
        /\ prPc = "returned"
        /\ prCmds = <<>>
        /\ prRemote.releases = Range(prListing)

\* C9 witness: prune returned for keep_releases = 0 on a directory of several
\* releases.
C9_Witness ==
    /\ prPc = "returned"
    /\ prKeep = 0
    /\ Len(prListing) >= 2

\* C10: after any sequence of construct, update_dict and finalize_config, a
\* configuration with a non-empty revision has no clone_depth.
C10_RevisionExcludesCloneDepth ==
    (confBuilt /\ Truthy(conf.revision)) => conf.clone_depth = PyNone

\* C10 witness: revision is set, and a later update_dict that names a positive
\* clone_depth and no revision has returned.
C10_Witness ==
    /\ confBuilt
    /\ confOp = "update_dict"
    /\ ~confErr
    /\ DOMAIN confData = {"clone_depth"}
    /\ confData["clone_depth"] = PyInt(2)
    /\ conf.revision = PyStr(<<"v1">>)
    /\ conf.clone_depth = PyNone

\* the step in which an operation of the configuration object runs
ConfStep(op) == Ready /\ confOp' = op

HomeOf(user) == PyStr(<<"", "home">> \o user.p)

\* C11: update_dict raises exactly when a key of the mapping is unknown or
\* carries a value its field rejects, and then every field keeps its value,
\* also the fields named by valid keys of the mapping; when it returns, every
\* key of the mapping has been written.
C11_UpdateDictAllOrNothing ==
    [][ConfStep("update_dict") =>
         LET data == confData'
             bad == {k \in DOMAIN data :
                       \/ k = "unknown_field"
                       \/ k # "clone_depth" /\ data[k].t \notin {"none", "str"}}
         IN /\ confErr' <=> bad # {}
            /\ confErr' => conf' = conf
            /\ ~confErr' =>
                 \A k \in DOMAIN data :
                    IF k = "clone_depth"
                    THEN conf'[k] \in {PyNone, _parse_clone_depth(data[k])}
                    ELSE conf'[k] = data[k]]_vars

\* C11 witness: an update_dict of a valid project_root and an unknown field
\* raised, and project_root is not the one of the mapping.
C11_Witness ==
    /\ confOp = "update_dict"
    /\ confErr
    /\ DOMAIN confData = {"project_root", "unknown_field"}
    /\ confData["project_root"] = PyStr(<<"app">>)
    /\ conf.project_root # PyStr(<<"app">>)

FinalizedFields ==
    {"project_root", "releases_dir", "current_dir", "shared_dir", "venv_dir",
     "python_path", "env_vars", "service_file_name"}

\* C12: a finalize_config that follows a finalize_config with no change in
\* between leaves project_root, releases_dir, current_dir, shared_dir,
\* venv_dir, python_path, env_vars and service_file_name as they are; and in
\* every state a finalize_config has just produced, one more would.
C12_FinalizeIdempotent ==
    /\ [][(ConfStep("finalize_config")
           /\ confScenario \in {"finalized", "finalized_twice", "refinalized"})
          => \A f \in FinalizedFields : conf'[f] = conf[f]]_vars
    /\ [](confOp = "finalize_config" =>
            \A f \in FinalizedFields : Finalized(conf)[f] = conf[f])

\* C12 witness: finalize_config ran twice in a row on a configuration whose
\* relative project_root the first call rewrote.
C12_Witness ==
    /\ confScenario = "finalized_twice"
    /\ confOp = "finalize_config"
    /\ conf.project_root = PyStr(<<"", "home", "web", "app">>)
    /\ conf.releases_dir = PyStr(<<"", "home", "web", "app", "releases">>)

\* the configuration constructed from the original mapping with the current
\* project_user, finalized once
FreshWithUser ==
    Finalized(ModelValidate(
        [k \in DOMAIN confOrigData \cup {"project_user"} |->
           IF k = "project_user" THEN conf.project_user ELSE confOrigData[k]]).value)

RelativeIn(data, k) == k \in DOMAIN data /\ Truthy(data[k]) /\ ~IsAbs(data[k])

\* C13: a configuration built with a relative project_root or venv_dir,
\* finalized, given another project_user by update_dict and finalized again
\* has the project_root, releases_dir, current_dir, shared_dir, venv_dir and
\* python_path of a fresh configuration built from the same mapping with the
\* new project_user and finalized once.
C13_FinalizeRecomputes ==
    (/\ confScenario = "refinalized"
     /\ confOp = "finalize_config"
     /\ "project_user" \in DOMAIN confOrigData
     /\ Truthy(confOrigData["project_user"])
     /\ Truthy(conf.project_user)
     /\ RelativeIn(confOrigData, "project_root") \/ RelativeIn(confOrigData, "venv_dir"))
    => \A f \in {"project_root", "releases_dir", "current_dir", "shared_dir",
                 "venv_dir", "python_path"} : conf[f] = FreshWithUser[f]

\* C14: after finalize_config, releases_dir, current_dir and shared_dir are
\* absent when project_user or project_root is, python_path is absent when
\* project_user or venv_dir is, and service_file_name is absent when
\* service_file is.
C14_NoStaleDerivedFields ==
    confOp = "finalize_config" =>
        /\ (conf.project_user = PyNone \/ conf.project_root = PyNone) =>
              /\ conf.releases_dir = PyNone
              /\ conf.current_dir = PyNone
              /\ conf.shared_dir = PyNone
        /\ (conf.project_user = PyNone \/ conf.venv_dir = PyNone) =>
              conf.python_path = PyNone
        /\ conf.service_file = PyNone => conf.service_file_name = PyNone

\* C14 witness: finalize_config returned on a configuration whose project_root
\* an earlier finalize_config had rewritten and whose project_user was cleared
\* since.
C14_Witness ==
    /\ confOp = "finalize_config"
    /\ conf.project_user = PyNone
    /\ conf.project_root = PyStr(<<"", "home", "bob", "app">>)
    /\ conf.releases_dir = PyNone

\* C15: finalize_config on a configuration with project_user and project_root
\* leaves an absolute project_root as it is, rewrites a relative one to
\* /home/{project_user}/{project_root}, and sets releases_dir, current_dir and
\* shared_dir to releases, current and shared under the resulting project_root.
C15_PathDerivation ==
    [][(/\ ConfStep("finalize_config")
        /\ conf.project_user # PyNone
        /\ conf.project_root # PyNone)
       => /\ conf'.project_root =
                IF conf.project_root.p[1] = "" THEN conf.project_root
                ELSE PyStr(HomeOf(conf.project_user).p \o conf.project_root.p)
          /\ conf'.releases_dir = PyStr(conf'.project_root.p \o <<"releases">>)
          /\ conf'.current_dir = PyStr(conf'.project_root.p \o <<"current">>)
          /\ conf'.shared_dir = PyStr(conf'.project_root.p \o <<"shared">>)]_vars

\* C15 witness: finalize_config returned on a configuration constructed with
\* an absolute project_root.
C15_Witness ==
    /\ confOp = "finalize_config"
    /\ confScenario = "finalized"
    /\ confOrigData = ("project_root" :> PyStr(<<"", "srv", "app">>)) @@
                      ("project_user" :> PyStr(<<"web">>))
    /\ conf.project_root = PyStr(<<"", "srv", "app">>)
    /\ conf.shared_dir = PyStr(<<"", "srv", "app", "shared">>)

\* the zero-based indices of the entries of servers that fail validation
InvalidEntries ==
    {i \in 0..(Len(ldDoc.servers) - 1) :
       LET server == ldDoc.servers[i + 1]
           overlaid == [k \in DOMAIN ldDoc.common \cup DOMAIN server |->
                          IF k \in DOMAIN server THEN server[k] ELSE ldDoc.common[k]]
       IN ~ModelValidate(overlaid).ok}

WellFormed ==
    /\ ldDoc.parsed
    /\ ldDoc.keys = {"common", "servers"}
    /\ ldDoc.servers # <<>>

\* C16: when an entry of servers fails validation, load_config raises and its
\* caller receives no configuration, also not those of the valid entries
\* before the invalid one.
C16_LoadAllOrNothing ==
    /\ (WellFormed /\ InvalidEntries # {}) => ldPc # "returned"
    /\ ldPc = "raised" => ldReturned = <<>>

\* C16 witness: load_config raised at the second entry after it had built the
\* configuration of the first.
C16_Witness ==
    /\ ldPc = "raised"
    /\ ldError.kind = "server"
    /\ ldError.index = 1
    /\ Len(ldConfigs) = 1
    /\ ldReturned = <<>>

C18_ErrorNamesAllInvalid ==
    (ldPc = "raised" /\ ldError.kind = "server") =>
        InvalidEntries = {ldError.index}

\* C19: load_config raises, and builds no configuration, when the document is
\* empty, lacks common or servers, has another top-level key, or has an empty
\* servers list.
C19_MalformedDocumentRejected ==
    (/\ ldPc # "start"
     /\ \/ ~ldDoc.parsed
        \/ "common" \notin ldDoc.keys
        \/ "servers" \notin ldDoc.keys
        \/ ldDoc.keys \ {"common", "servers"} # {}
        \/ ldDoc.servers = <<>>)
    => /\ ldPc = "raised"
       /\ ldError.kind \in {"empty", "schema", "servers_empty"}
       /\ ldConfigs = <<>>
       /\ ldReturned = <<>>

\* C19 witness: load_config raised on a document that has common, a valid
\* entry under servers and one more top-level key.
C19_Witness ==
    /\ ldPc = "raised"
    /\ ldDoc.keys = {"common", "servers", "extra"}
    /\ ldDoc.servers = <<"host" :> PyStr(<<"a.example.com">>)>>
    /\ ldDoc.common = EmptyMapping

\* C20: for a valid file load_config returns one configuration per entry of
\* servers, in order, each the finalized configuration constructed from common
\* overlaid by the entry, a key of the entry replacing the whole value common
\* gives it.
C20_LoadMergesInOrder ==
    ldPc = "returned" =>
        /\ Len(ldReturned) = Len(ldDoc.servers)
        /\ \A i \in 1..Len(ldDoc.servers) :
             LET server == ldDoc.servers[i]
                 overlaid == [k \in DOMAIN ldDoc.common \cup DOMAIN server |->
                                IF k \in DOMAIN server THEN server[k]
                                ELSE ldDoc.common[k]]
             IN /\ ldReturned[i] = Finalized(ModelValidate(overlaid).value)
                /\ \A k \in DOMAIN server \ {"secrets", "project_root"} :
                     ldReturned[i][k] = server[k]
                /\ "secrets" \in DOMAIN server =>
                     ldReturned[i].secrets = server["secrets"]
                /\ \A k \in DOMAIN ldDoc.common \ (DOMAIN server \cup {"project_root"}) :
                     ldReturned[i][k] = ldDoc.common[k]

\* C20 witness: common gives a list of secrets, the first entry none and the
\* second a list of its own; the second configuration has the entry's list
\* alone and the first the list of common.
C20_Witness ==
    /\ ldPc = "returned"
    /\ Len(ldReturned) = 2
    /\ "secrets" \in DOMAIN ldDoc.common
    /\ ldDoc.common["secrets"] = PyList(<<<<"a.key">>>>)
    /\ ldReturned[1].host = PyStr(<<"a.example.com">>)
    /\ ldReturned[1].secrets = PyList(<<<<"a.key">>>>)
    /\ ldReturned[2].host = PyStr(<<"b.example.com">>)
    /\ ldReturned[2].secrets = PyList(<<<<"b.key">>>>)

BoolTrueInputs ==
    {PyInt(1), PyBool(TRUE)}
    \cup {PyStr(<<w>>) : w \in {"true", "TRUE", "yes", "Yes", "on", "On"}}

BoolFalseInputs ==
    {PyInt(0), PyBool(FALSE), PyStr(<<>>), PyNone}
    \cup {PyStr(<<w>>) : w \in {"false", "False", "no", "NO", "off", "OFF"}}

BoolOtherStrings == {PyStr(<<"maybe">>), PyStr(<<"enabled">>), PyStr(<<"y", " ", "es">>)}

PositiveOf(v) ==
    CASE v = PyInt(1) -> 1
      [] v = PyInt(2) -> 2
      [] v = PyStr(<<"2">>) -> 2
      [] OTHER -> 0

\* C22: at construction clone_depth is 1 for an absent or empty input, absent
\* for a non-positive or unparseable one, N for a positive integer N, and
\* absent for any input when revision is non-empty; no input of clone_depth is
\* a validation error.
C22_CloneDepthCoercion ==
    (confKeys = SourceKeys /\ confOp = "construct") =>
        LET given == "clone_depth" \in DOMAIN confData
            v == IF given THEN confData["clone_depth"] ELSE PyNone
            revision == "revision" \in DOMAIN confData
                        /\ confData["revision"].t = "str"
                        /\ confData["revision"].p # <<>>
        IN /\ DOMAIN confData \subseteq {"clone_depth"} => ~confErr
           /\ ~confErr =>
                conf.clone_depth =
                    IF revision THEN PyNone
                    ELSE IF v \in {PyNone, PyStr(<<>>)} THEN PyInt(1)
                    ELSE IF PositiveOf(v) > 0 THEN PyInt(PositiveOf(v))
                    ELSE PyNone

\* C22 witness: a configuration constructed with clone_depth "0" and no
\* revision has no clone_depth.
C22_Witness ==
    /\ confOp = "construct"
    /\ ~confErr
    /\ confData = ("clone_depth" :> PyStr(<<"0">>))
    /\ conf.clone_depth = PyNone
    /\ conf.revision = PyNone

\* the list each input of a list field drawn stands for
ExpectedList(v) ==
    CASE v \in {PyNone, PyStr(<<>>)} -> <<>>
      [] v = PyStr(<<"a.key", ";", " ", "b.key">>) -> <<<<"a.key">>, <<"b.key">>>>
      [] v = PyStr(<<" ", "b.key", ";", ";", "\n", "a.key", "\n">>) ->
           <<<<"b.key">>, <<"a.key">>>>
      [] v = PyList(<<<<"b.key">>, <<"a.key">>>>) -> <<<<"b.key">>, <<"a.key">>>>
      [] v = PyList(<<<<" ", "a.key", " ">>, <<>>, <<" ">>, <<"b", " ", "key">>>>) ->
           <<<<"a.key">>, <<"b", " ", "key">>>>
      [] v = PyStr(<<"github.com", "\n", "gitlab.com", ";">>) ->
           <<<<"github.com">>, <<"gitlab.com">>>>
      [] v = PyList(<<<<"gitlab.com">>, <<"github.com", " ">>>>) ->
           <<<<"gitlab.com">>, <<"github.com">>>>
      [] v = PyStr(<<"git", " ", " ", "nginx", ";", "curl">>) ->
           <<<<"git">>, <<"nginx">>, <<"curl">>>>
      [] v = PyStr(<<"\n", "nginx", ";", " ", "git", " ">>) -> <<<<"nginx">>, <<"git">>>>
      [] v = PyList(<<<<"nginx">>, <<" ", "git">>, <<" ">>>>) -> <<<<"nginx">>, <<"git">>>>

\* C23: a list field always holds a list of trimmed, non-empty strings, in
\* the order of the delimited string or native list it was given, and handing
\* that list to the coercion again yields the same list: the validator maps it
\* to itself, and an update_dict that does not name the field, which validates
\* the field's current list anew, leaves it as it is.
C23_ListNormalization ==
    /\ [](confKeys = ListKeys =>
            \A f \in ListFields :
               /\ conf[f].t = "list"
               /\ \A i \in 1..Len(conf[f].p) :
                    LET item == conf[f].p[i]
                    IN /\ item # <<>>
                       /\ item[1] \notin {" ", "\n"}
                       /\ item[Len(item)] \notin {" ", "\n"}
               /\ FieldParsed(f, conf[f]) = conf[f]
               /\ (confOp \in {"construct", "update_dict"} /\ ~confErr
                     /\ f \in DOMAIN confData)
                  => conf[f].p = ExpectedList(confData[f]))
    /\ [][(confKeys = ListKeys /\ ConfStep("update_dict") /\ ~confErr')
          => \A f \in ListFields \ DOMAIN confData' : conf'[f] = conf[f]]_vars

\* C23 witness: an update_dict of system_packages alone returned on a
\* configuration whose secrets came from a delimited string with blanks, empty
\* pieces and a newline, and secrets is still the two names in their order.
C23_Witness ==
    /\ confKeys = ListKeys
    /\ confOp = "update_dict"
    /\ ~confErr
    /\ DOMAIN confData = {"system_packages"}
    /\ conf.system_packages = PyList(<<<<"git">>, <<"nginx">>, <<"curl">>>>)
    /\ conf.secrets = PyList(<<<<"b.key">>, <<"a.key">>>>)
    /\ conf.ssh_known_hosts = PyList(<<>>)

OpEnded(name) == opName = name /\ opPc \in {"returned", "raised"}

\* C26: create_project_user probes first; it issues useradd and the sudoers
\* entry exactly when the probe failed, a failed probe alone never makes the
\* call raise, and a call on a host where the user exists issues the probe
\* only and changes nothing.
C26_CreateUserOnlyIfAbsent ==
    /\ [](OpEnded("create_project_user") =>
            /\ Len(opCmds) >= 1
            /\ opCmds[1].op = "id -u"
            /\ opProbeFailed <=> Len(opCmds) > 1
            /\ Len(opCmds) > 1 => opCmds[2].op = "useradd -m -s /bin/bash"
            /\ (opProbeFailed /\ opPc = "returned") =>
                  /\ Len(opCmds) = 3
                  /\ opCmds[3].op = "echo sudoers_entry > /etc/sudoers.d/project_user"
                  /\ opRemote.user
            /\ ~opProbeFailed => opPc = "returned")
    /\ [][(opName = "create_project_user" /\ opPc = "call" /\ opPc' # "call"
           /\ opRemote.user)
          => /\ opRemote' = opRemote
             /\ opCmds' = <<Command("id -u")>>
             /\ opPc' = "returned"]_vars

\* C26 witness: the first call created the user, the second one has returned
\* after the probe alone.
C26_Witness ==
    /\ OpEnded("create_project_user")
    /\ opCalls = 2
    /\ opPc = "returned"
    /\ opCmds = <<Command("id -u")>>
    /\ opRemote.user
    /\ opRemote.sudoers
    /\ opRemote.releases = {}

\* C27: try_to_remove_release_dir issues the removal and returns to its caller
\* whether the removal succeeded or raised.
C27_RemoveNeverRaises ==
    OpEnded("try_to_remove_release_dir") =>
        /\ opPc = "returned"
        /\ opCmds = <<Command("rm -rf")>>
        /\ ~opReported => Basename(OpDir) \notin opRemote.releases

\* C27 witness: the removal raised, the error was reported, the directory is
\* still there and the call returned.
C27_Witness ==
    /\ OpEnded("try_to_remove_release_dir")
    /\ opPc = "returned"
    /\ opReported
    /\ Basename(OpDir) \in opRemote.releases

\* C28: update_source_code issues a single-branch clone first, with a depth
\* exactly when clone_depth is set and a branch exactly when branch is set;
\* when revision is set it then issues, inside the release directory, a forced
\* fetch of all tags and then a checkout of the revision, and nothing else
\* otherwise; the clone has no depth when revision is set.
C28_FetchSourceCommands ==
    OpEnded("update_source_code") =>
        LET c == opConf
            n == Len(opCmds)
            plan == IF c.revision.t = "str" /\ c.revision.p # <<>> THEN 3 ELSE 1
        IN /\ n \in 1..plan
           /\ opPc = "returned" => n = plan
           /\ opCmds[1].op = "git clone --single-branch"
           /\ ~opCmds[1].inDir
           /\ opCmds[1].depth = c.clone_depth
           /\ opCmds[1].branch =
                 IF c.branch.t = "str" /\ c.branch.p # <<>> THEN c.branch ELSE PyNone
           /\ n >= 2 => /\ opCmds[2].op = "git fetch --tags --force"
                        /\ opCmds[2].inDir
           /\ n >= 3 => /\ opCmds[3].op = "git checkout"
                        /\ opCmds[3].revision = c.revision
                        /\ opCmds[3].inDir
           /\ plan = 3 => opCmds[1].depth = PyNone

\* C28 witness: a call for a configuration with a branch and a revision
\* returned after the clone without depth, the fetch and the checkout.
C28_Witness ==
    /\ OpEnded("update_source_code")
    /\ opPc = "returned"
    /\ Len(opCmds) = 3
    /\ opConf.revision = PyStr(<<"v1">>)
    /\ opCmds[1].branch = PyStr(<<"main">>)
    /\ opCmds[1].depth = PyNone
    /\ opCmds[3].revision = PyStr(<<"v1">>)

InSetup == cmd = "setup" /\ idx >= 1

\* the set_up steps for configuration c, in the order the specification gives
SetupPlan(c) ==
    <<"create_project_user", "copy_authorized_keys", "create_directory_structure",
      "setup_packages", "setup_venv", "setup_known_hosts">>
    \o Opt(c.service_file, "setup_service")
    \o Opt(c.secrets, "copy_secrets")

\* C24: on a connection opened as root, the calls set_up makes for a server
\* are always an initial part of ensure-user, copy-keys, create-directories,
\* install-packages, create-venv, populate-known-hosts, [register-service],
\* [upload-secrets], the bracketed ones present exactly when service_file is
\* present and secrets is non-empty; a step starts only after every earlier
\* one returned, and a completed server ran all of them.
C24_SetupStepOrder ==
    InSetup =>
        /\ ConnectionUser(cmd) = "root"
        /\ IsPrefix(StepNames(log), SetupPlan(cfg))
        /\ \A i \in 1..Len(log) : ~log[i].ok => i = Len(log)
        /\ status[idx] = "completed" => StepNames(log) = SetupPlan(cfg)
        /\ status[idx] = "running" /\ pc # "loop"
             => /\ Len(log) < Len(SetupPlan(cfg))
                /\ pc = SetupPlan(cfg)[Len(log) + 1]

\* C24 witness: after the first server completed, the second one, with
\* service_file and secrets, has completed all eight steps.
C24_Witness ==
    /\ InSetup
    /\ idx = 2
    /\ status[1] = "completed"
    /\ status[2] = "completed"
    /\ cfg.service_file /\ cfg.secrets
    /\ Len(log) = 8
    /\ log[7].step = "setup_service"
    /\ log[8].step = "copy_secrets"

\* C25: in set_up the first call that raises is the last call of the run: the
\* process is at exit(1), the servers after the failing one were never
\* started, and nothing more is issued until a new invocation.
C25_SetupAbortsOnFirstFailure ==
    /\ []((InSetup /\ Failed(log) # {}) =>
            /\ pc = "exit1"
            /\ ~log[Len(log)].ok
            /\ status[idx] = "aborted"
            /\ \A s \in Servers : s > idx => status[s] = "pending")
    /\ [][(cmd = "setup" /\ pc = "exit1" /\ runs' = runs)
            => log' = log /\ remote' = remote /\ status' = status /\ pc' = pc]_vars

\* C25 witness: install-packages raised on the first server; set_up is at
\* exit(1) and the second server is untouched.
C25_Witness ==
    /\ InSetup
    /\ idx = 1
    /\ pc = "exit1"
    /\ Len(log) = 4
    /\ log[4] = [step |-> "setup_packages", ok |-> FALSE]
    /\ status[2] = "pending"

\* C29: in a server's deploy link-shared-resources is called only after
\* upload-env-file has returned, so once it has repointed shared_dir/.env the
\* target .env.{release} is there; every .env link points to an uploaded
\* snapshot, and an upload writes only the snapshot named after its own
\* release, leaving the snapshots of other names as they are.
C29_EnvSnapshotBeforeLink ==
    /\ [](InDeploy =>
            /\ \A i \in 1..Len(log) :
                 log[i].step = "setup_symlinks" =>
                    \E j \in 1..(i - 1) :
                        log[j] = [step |-> "copy_env_file", ok |-> TRUE]
            /\ "setup_symlinks" \in Succeeded(log) =>
                 /\ remote[idx].envLink = timestamp
                 /\ timestamp \in remote[idx].envs
                 /\ [server |-> idx, kind |-> "env_file", name |-> timestamp] \in made)
    /\ [](\A s \in Servers :
            remote[s].envLink # NoRelease => remote[s].envLink \in remote[s].envs)
    /\ [][\A s \in Servers :
            /\ remote[s].envs \subseteq remote'[s].envs
            /\ remote'[s].envs # remote[s].envs =>
                 /\ cmd = "deploy" /\ pc = "copy_env_file" /\ s = idx
                 /\ remote'[s].envs = remote[s].envs \cup {timestamp}]_vars

\* C29 witness: the second deploy of a server has repointed .env to its own
\* snapshot while the snapshot of the first deploy is still there.
C29_Witness ==
    /\ InDeploy
    /\ "setup_symlinks" \in Succeeded(log)
    /\ remote[idx].envLink = timestamp
    /\ \E n \in remote[idx].envs : n # timestamp

\* C30: in deploy link-secrets is called exactly when secrets is non-empty,
\* collect-static exactly when collect_static_files holds, migrate exactly
\* when run_migrations holds and restart-service exactly when service_file is
\* present; the seven other steps are called for every server that completes.
C30_ConditionalSteps ==
    InDeploy =>
        LET called == Range(StepNames(log))
        IN /\ "link_secrets_to_release" \in called => cfg.secrets
           /\ "collect_static_files" \in called => cfg.collect_static_files
           /\ "migrate_database" \in called => cfg.run_migrations
           /\ "restart_service" \in called => cfg.service_file
           /\ "update_symlink" \in called =>
                /\ cfg.secrets => "link_secrets_to_release" \in Succeeded(log)
                /\ cfg.collect_static_files => "collect_static_files" \in Succeeded(log)
                /\ cfg.run_migrations => "migrate_database" \in Succeeded(log)
           /\ "cleanup_old_releases" \in called =>
                (cfg.service_file => "restart_service" \in Succeeded(log))
           /\ status[idx] = "completed" =>
                {"setup_release_dir", "update_source_code", "copy_env_file",
                 "setup_symlinks", "install_requirements", "update_symlink",
                 "cleanup_old_releases"} \subseteq Succeeded(log)

\* C30 witness: a completed server with collect_static_files and service_file
\* but neither secrets nor run_migrations ran nine steps.
C30_Witness ==
    /\ InDeploy
    /\ status[idx] = "completed"
    /\ ~cfg.secrets /\ cfg.collect_static_files
    /\ ~cfg.run_migrations /\ cfg.service_file
    /\ Len(log) = 9
    /\ {"collect_static_files", "restart_service"} \subseteq Succeeded(log)

\* C31: with --dry-run no call of a workflow raises, run reports an empty
\* stdout (the listing prune reads is empty) and failed = false, and whole
\* setup and deploy workflows leave release directories, current_dir, the
\* shared files and the users of every server as they were.
C31_DryRunChangesNothing ==
    /\ [][remote' = remote]_vars
    /\ [](/\ dryRun
          /\ pc # "exit1"
          /\ made = {}
          /\ \A s \in Servers : status[s] # "aborted"
          /\ \A s \in Servers : LsStdout(dryRun, remote[s]) = <<>>
          /\ ~DryRunResult.failed)

\* C31 witness: a dry-run deploy with keep_releases = 1 has completed on every
\* server, and the first one still has both of its releases and its current.
C31_Witness ==
    /\ dryRun
    /\ cmd = "deploy"
    /\ pc = "done"
    /\ \A s \in Servers : status[s] = "completed"
    /\ cfg.keep_releases = 1
    /\ remote[1].releases = {1, 2}
    /\ remote[1].current = 1
    /\ timestamp > 2

\* C32: an invocation ends with status 0 exactly when load_config returned,
\* the command is deploy or setup and no step raised; otherwise it ends with
\* status 1.
C32_ExitStatus ==
    (Ended /\ cmd # "none") =>
        /\ ExitStatus \in {0, 1}
        /\ ExitStatus = 0 <=>
              /\ loaded
              /\ cmd \in {"deploy", "setup"}
              /\ \A s \in Servers : status[s] # "aborted"

\* C32 witness: after an invocation that ended some other way, a setup whose
\* configuration did not load ended with status 1 without starting a server.
C32_Witness ==
    /\ Ended
    /\ runs = 2
    /\ cmd = "setup"
    /\ ~loaded
    /\ ExitStatus = 1
    /\ \A s \in Servers : status[s] = "pending"

\* C33: a remote operation that has returned and is executed again with the
\* same arguments leaves the remote state as the first execution left it.
C33_OperationsIdempotent ==
    [][(opName \in IdemOps /\ opCalls > 1 /\ opPc = "call" /\ opPc' = "returned")
          => opRemote' = opRemote]_vars

\* C34: an update_dict that returns leaves every field its mapping does not
\* name as it was, except that clone_depth becomes absent when the mapping
\* sets a non-empty revision; so a clone_depth that is absent stays absent
\* when the mapping names neither clone_depth nor revision.
C34_UpdateDictFrame ==
    [][(ConfStep("update_dict") /\ ~confErr') =>
         LET data == confData'
         IN \A f \in FieldNames \ DOMAIN data :
              \/ conf'[f] = conf[f]
              \/ /\ f = "clone_depth"
                 /\ "revision" \in DOMAIN data
                 /\ Truthy(data["revision"])
                 /\ conf'[f] = PyNone]_vars

DeployEnded == InDeploy /\ status[idx] \in {"completed", "aborted"}

\* C35: whenever the deploy of a server has ended, by success or by a failure
\* at any step, shared_dir/.env points to the snapshot of the release that
\* current_dir points to.
C35_EnvLinkFollowsCurrent ==
    DeployEnded => remote[idx].envLink = remote[idx].current

\* C36: once promote-release of a deploy has returned on a server, no later
\* step of that deploy takes it back: current_dir points to the new release
\* and its directory is in releases_dir, also after a prune with
\* keep_releases >= 1, whatever releases_dir held before, what earlier deploys
\* that failed left there included.
C36_PromotedReleaseSurvives ==
    (InDeploy /\ "update_symlink" \in Succeeded(log)) =>
        /\ remote[idx].current = timestamp
        /\ timestamp \in remote[idx].releases

Promotions(l) == {i \in 1..Len(l) : l[i].step = "update_symlink"}

\* C37: a deploy run always comes to an end; it ends at exit(1) only when a
\* call raised, so when every command succeeds it ends normally, and then
\* every server of the list has completed with promote-release executed
\* exactly once and its current_dir at the release named by the timestamp of
\* this run.
C37_DeployTerminates ==
    /\ (cmd = "deploy" /\ ~Ended) ~> Ended
    /\ []((cmd = "deploy" /\ pc = "exit1") => (idx >= 1 /\ Failed(log) # {}))
    /\ [](InDeploy =>
            /\ Cardinality(Promotions(log)) <= 1
            /\ status[idx] = "completed" =>
                 /\ Cardinality(Promotions(log)) = 1
                 /\ "update_symlink" \in Succeeded(log))
    /\ []((cmd = "deploy" /\ pc = "done") =>
            \A s \in Servers :
                /\ status[s] = "completed"
                /\ remote[s].current = timestamp)

\* C37 witness: a deploy run has ended normally with every server's
\* current_dir moved to its timestamp.
C37_Witness ==
    /\ cmd = "deploy"
    /\ pc = "done"
    /\ idx = NumServers
    /\ \A s \in Servers : status[s] = "completed"
    /\ \A s \in Servers : remote[s].current = timestamp /\ startCurrent[s] # timestamp

\* C38: deploy hands no absent configuration value to a remote operation: for
\* a server whose releases_dir, shared_dir or current_dir is absent no
\* command and no upload is issued, no path is built from an absent value,
\* and the env file is uploaded only when env_file is present.
C38_NoAbsentValuePassed ==
    OpEnded("deploy") =>
        /\ opCmds # <<>> =>
              /\ opConf.releases_dir # PyNone
              /\ opConf.shared_dir # PyNone
              /\ opConf.current_dir # PyNone
        /\ \A i \in 1..Len(opCmds) :
              /\ opCmds[i].path[1] # "None"
              /\ opCmds[i].op = "put" => opConf.env_file # PyNone

====
